---- MODULE Spec2Model ----
(***************************************************************************)
(* Model of the duckhts scan engine: the read_bcf and read_bam table       *)
(* functions (bind, global init, per-thread init, scan), the contig        *)
(* coordinator they share, and the record materializer.                    *)
(*                                                                         *)
(* One scan invocation is split at the only point where workers interact,  *)
(* the atomic fetch-and-add of claim_next_contig: every other step of an   *)
(* invocation touches worker-local state only.                             *)
(***************************************************************************)
EXTENDS Integers, Sequences, FiniteSets, TLC

(***************************************************************************)
(* Bounds of the model.                                                    *)
(***************************************************************************)
MaxContigs == 2
MaxRecs == 1
MaxUnmapped == 1
MaxWorkers == 2
MaxRegions == 1
MaxSamples == 2
VectorSize == 1
WideExtra == 1
MaxCols == 3
MaxStored == 4

(***************************************************************************)
(* Program constants.                                                      *)
(***************************************************************************)
MaxThreadsCap == 16

VARIABLES reader, file, bind, global, max_threads, local, out, batches,
          handed, nread, initIn, pscan, lscan, dscan

vars == <<reader, file, bind, global, max_threads, local, out, batches,
          handed, nread, initIn, pscan, lscan, dscan>>

\* the state of the row writers (pscan: columns of a row, lscan: list
\* columns, dscan: the decoder of one field), which the scan of the records
\* leaves alone
writerVars == <<pscan, lscan, dscan>>

scanVars == <<reader, file, bind, global, max_threads, local, out, batches,
              handed, nread, initIn>>

Workers == 1..MaxWorkers

Min(a, b) == IF a < b THEN a ELSE b

None == [none |-> TRUE]

(***************************************************************************)
(* The file: nseq declared contigs, cnt[c] records placed on contig c (in  *)
(* coordinate order), `unmapped` records placed on no contig (alignment    *)
(* files only, stored after the last contig), nullq the contigs for which  *)
(* an index query yields no iterator (only contigs without records), and   *)
(* whether an index exists next to the file.                               *)
(***************************************************************************)
Unplaced == -1
BadRegion == -2
NoRec == <<-3, 0>>

\* records are only placed on the first MaxContigs contigs of a file
CntOf(f, c) == IF c \in DOMAIN f.cnt THEN f.cnt[c] ELSE 0

RecsOf(f, c) ==
    IF c = Unplaced THEN [k \in 1..f.unmapped |-> <<Unplaced, k>>]
    ELSE IF c \in 0..(f.nseq - 1) THEN [k \in 1..CntOf(f, c) |-> <<c, k>>]
    ELSE <<>>

RECURSIVE ContigsSeq(_, _)
ContigsSeq(f, c) ==
    IF c >= f.nseq THEN <<>> ELSE RecsOf(f, c) \o ContigsSeq(f, c + 1)

\* every record of the file in file order: what bcf_read / sam_read1 return
FileSeq(f) == ContigsSeq(f, 0) \o RecsOf(f, Unplaced)

Files(rd, counts, dataContigs) ==
    { f \in [nseq : counts, cnt : [0..(MaxContigs - 1) -> 0..MaxRecs],
             unmapped : 0..MaxUnmapped, nullq : SUBSET (0..(MaxContigs - 1)),
             indexed : BOOLEAN, n_samples : 0..MaxSamples] :
        /\ \A c \in 0..(MaxContigs - 1) :
              (c >= f.nseq \/ c >= dataContigs) => f.cnt[c] = 0
        /\ \A c \in f.nullq : c < f.nseq /\ f.cnt[c] = 0
        \* files wider than MaxContigs vary in the records of contig 0 only
        /\ f.nseq > MaxContigs =>
              (f.nullq = {} /\ f.unmapped = 0 /\ f.n_samples = 0)
        /\ (rd = "bcf" => f.unmapped = 0)
        /\ (rd = "bam" => f.n_samples = 0) }

(***************************************************************************)
(* Iterators.  kind "none" is the NULL iterator (sequential reads).        *)
(***************************************************************************)
NoItr == [kind |-> "none", tgt |-> 0, pos |-> 0]
ContigItr(c) == [kind |-> "contig", tgt |-> c, pos |-> 0]
RegionItr(c) == [kind |-> "region", tgt |-> c, pos |-> 0]
MultiItr == [kind |-> "multi", tgt |-> 0, pos |-> 0]

\* does an index query for contig / region target c give an iterator
QueryGivesItr(f, c) == c \in 0..(f.nseq - 1) /\ c \notin f.nullq

\* sam_itr_regarray: one iterator over the union of the regions, each record once
MultiSeq(f, regions) ==
    LET keep == { i \in DOMAIN FileSeq(f) :
                    \E j \in DOMAIN regions : regions[j] = FileSeq(f)[i][1] }
        F[i \in 0..Len(FileSeq(f))] ==
            IF i = 0 THEN <<>>
            ELSE IF i \in keep THEN Append(F[i - 1], FileSeq(f)[i]) ELSE F[i - 1]
    IN F[Len(FileSeq(f))]

ItrRecords(f, b, itr) ==
    IF itr.kind = "none" THEN FileSeq(f)
    ELSE IF itr.kind = "multi" THEN MultiSeq(f, b.regions)
    ELSE RecsOf(f, itr.tgt)

(***************************************************************************)
(* Per-thread cursor state (bcf_init_data_t / bam_local_init_data_t) with  *)
(* the position of the worker:                                             *)
(*   "none"    no per-thread init yet                                      *)
(*   "failed"  per-thread init set an error, no cursor published           *)
(*   "idle"    cursor published, between two scan invocations              *)
(*   "claim0"  in the scan invocation, before a claim made at its start    *)
(*   "claim1"  in the scan invocation, before a claim made by the row loop *)
(*   "stopped" the invocation returned an empty batch                      *)
(***************************************************************************)
NoLocal ==
    [pc |-> "none", idx |-> FALSE, itr |-> NoItr, fpos |-> 0, done |-> FALSE,
     is_parallel |-> FALSE, assigned_contig |-> -1, needs_next_contig |-> FALSE,
     next_region_idx |-> 0, tidy_current_sample |-> 0,
     tidy_record_valid |-> FALSE, rec |-> NoRec, chunk |-> <<>>, err |-> FALSE]


(***************************************************************************)
(* Initial state: a file on disk, nothing bound yet.                       *)
(***************************************************************************)
InitWith(counts, dataContigs) ==
    /\ reader \in {"bcf", "bam"}
    /\ file \in Files(reader, counts, dataContigs)
    /\ bind = None
    /\ global = None
    /\ max_threads = 0
    /\ local = [w \in Workers |-> NoLocal]
    /\ out = [w \in Workers |-> <<>>]
    /\ batches = [w \in Workers |-> <<>>]
    /\ handed = [c \in 0..(file.nseq - 1) |-> 0]
    /\ nread = [w \in Workers |-> 0]
    /\ initIn = [w \in Workers |-> None]

Init ==
    /\ InitWith(0..MaxContigs, MaxContigs)
    /\ pscan = None /\ lscan = None /\ dscan = None

\* files declaring more contigs than the cap on the worker count, with
\* records on their first contig only
InitWide ==
    /\ InitWith({0, 1, 2, MaxThreadsCap + WideExtra}, 1)
    /\ pscan = None /\ lscan = None /\ dscan = None

(***************************************************************************)
(* Bind.  The region list is a list of region targets: a contig of the     *)
(* file, or BadRegion for a region naming no sequence of the file.         *)
(***************************************************************************)
RegionTargets(f) == (0..(Min(f.nseq, MaxContigs) - 1)) \cup {BadRegion}

RegionLists(f) == UNION { [1..n -> RegionTargets(f)] : n \in 0..MaxRegions }

\* read_bcf bind: the index is probed only when no region was given, and
\* the contig list is taken from the header only when an index was found
bcf_read_bind(f, regions, tidy) ==
    LET has_index == Len(regions) = 0 /\ f.indexed
    IN [n_regions |-> Len(regions), regions |-> regions,
        n_samples |-> f.n_samples, tidy_format |-> tidy,
        has_index |-> has_index,
        n_contigs |-> IF has_index /\ f.nseq > 0 THEN f.nseq ELSE 0]

\* read_bam bind: n_contigs = sam_hdr_nref(), has_index from the index probe
bam_read_bind(f, regions) ==
    [n_regions |-> Len(regions), regions |-> regions,
     n_samples |-> 0, tidy_format |-> FALSE,
     has_index |-> f.indexed, n_contigs |-> f.nseq]

\* the tidy_format parameter.  The rows of the wide layout do not depend on
\* the samples of the file, so the wide scans are those of sample-free files
TidyChoices(f) == IF f.n_samples > 0 THEN {TRUE} ELSE BOOLEAN

Bind ==
    /\ bind = None
    /\ \E regions \in RegionLists(file) :
         \/ /\ reader = "bcf"
            /\ \E tidy \in TidyChoices(file) :
                  bind' = bcf_read_bind(file, regions, tidy)
         \/ /\ reader = "bam"
            /\ bind' = bam_read_bind(file, regions)
    /\ UNCHANGED <<reader, file, global, max_threads, local, out, batches,
                   handed, nread, initIn>>
    /\ UNCHANGED writerVars

(***************************************************************************)
(* Global init (bcf_read_global_init and bam_read_global_init are the      *)
(* same decision).                                                         *)
(***************************************************************************)
ParallelEnabled(b) == b.has_index /\ b.n_contigs > 1 /\ ~(b.n_regions > 0)

GlobalData(b) ==
    [current_contig |-> 0,
     has_region |-> (b.n_regions > 0),
     n_contigs |-> IF ParallelEnabled(b) THEN b.n_contigs ELSE 0]

\* mutant: the worker count is not capped
MaxThreadsNoCap(b) == IF ParallelEnabled(b) THEN b.n_contigs ELSE 1

MaxThreads(b) ==
    IF ParallelEnabled(b) THEN Min(b.n_contigs, MaxThreadsCap) ELSE 1

read_global_init ==
    /\ bind # None
    /\ global = None
    /\ global' = GlobalData(bind)
    /\ max_threads' = MaxThreads(bind)
    /\ UNCHANGED <<reader, file, bind, local, out, batches, handed, nread,
                   initIn>>
    /\ UNCHANGED writerVars


(***************************************************************************)
(* Per-thread init.  Inputs: whether the worker's own open of the file and *)
(* of its header succeeds, and whether its own index load succeeds (it can *)
(* only succeed when an index exists).                                     *)
(***************************************************************************)
FailedLocal == [NoLocal EXCEPT !.pc = "failed", !.err = TRUE]

\* the chained region open of read_bcf: try the regions from position i on,
\* stop at the first one that gives an iterator
RECURSIVE OpenRegion(_, _, _)
OpenRegion(f, b, i) ==
    IF i >= b.n_regions THEN [itr |-> NoItr, next |-> i]
    ELSE IF QueryGivesItr(f, b.regions[i + 1])
         THEN [itr |-> RegionItr(b.regions[i + 1]), next |-> i + 1]
         ELSE OpenRegion(f, b, i + 1)

\* mutant: a region query without index goes on as a sequential scan
bcf_local_init_no_check(f, b, openOk, loadOk) ==
    LET is_parallel == b.has_index /\ b.n_contigs > 1 /\ b.n_regions = 0
        idx == (is_parallel \/ b.n_regions > 0) /\ loadOk
        l0 == [NoLocal EXCEPT !.pc = "idle", !.is_parallel = is_parallel,
                              !.needs_next_contig = is_parallel, !.idx = idx]
        r == OpenRegion(f, b, 0)
    IN IF ~openOk THEN FailedLocal
       ELSE IF ~is_parallel /\ b.n_regions > 0 /\ idx
            THEN IF r.itr = NoItr
                 THEN [l0 EXCEPT !.next_region_idx = r.next, !.done = TRUE]
                 ELSE [l0 EXCEPT !.next_region_idx = r.next, !.itr = r.itr]
            ELSE l0

bcf_local_init(f, b, openOk, loadOk) ==
    LET is_parallel == b.has_index /\ b.n_contigs > 1 /\ b.n_regions = 0
        idx == (is_parallel \/ b.n_regions > 0) /\ loadOk
        l0 == [NoLocal EXCEPT !.pc = "idle", !.is_parallel = is_parallel,
                              !.needs_next_contig = is_parallel, !.idx = idx]
        r == OpenRegion(f, b, 0)
    IN IF ~openOk THEN FailedLocal
       ELSE IF ~is_parallel /\ b.n_regions > 0
            THEN IF ~idx THEN FailedLocal
                 ELSE IF r.itr = NoItr
                      THEN [l0 EXCEPT !.next_region_idx = r.next, !.done = TRUE]
                      ELSE [l0 EXCEPT !.next_region_idx = r.next, !.itr = r.itr]
            ELSE l0

bam_local_init(f, b, openOk, loadOk) ==
    LET is_parallel == b.has_index /\ b.n_contigs > 1 /\ b.n_regions = 0
        idx == (is_parallel \/ b.n_regions > 0) /\ loadOk
        fallback == (is_parallel \/ b.n_regions > 0) /\ ~idx
        l0 == [NoLocal EXCEPT !.pc = "idle", !.idx = idx,
                 !.is_parallel = is_parallel /\ ~fallback,
                 !.needs_next_contig = is_parallel /\ ~fallback]
        anyRegion == \E j \in DOMAIN b.regions : QueryGivesItr(f, b.regions[j])
    IN IF ~openOk THEN FailedLocal
       ELSE IF fallback /\ b.n_regions > 0 THEN FailedLocal
       ELSE IF ~is_parallel /\ b.n_regions > 0 /\ idx
            THEN IF anyRegion THEN [l0 EXCEPT !.itr = MultiItr] ELSE FailedLocal
            ELSE l0

read_local_init(w) ==
    /\ global # None
    /\ local[w].pc = "none"
    /\ w <= max_threads
    \* workers are numbered in the order of their per-thread init
    /\ \A v \in 1..(w - 1) : local[v].pc # "none"
    /\ \E openOk \in BOOLEAN :
       \E loadOk \in (IF file.indexed THEN BOOLEAN ELSE {FALSE}) :
         /\ local' = [local EXCEPT ![w] =
                         IF reader = "bcf"
                         THEN bcf_local_init(file, bind, openOk, loadOk)
                         ELSE bam_local_init(file, bind, openOk, loadOk)]
         /\ initIn' = [initIn EXCEPT ![w] = [openOk |-> openOk, loadOk |-> loadOk]]
    /\ UNCHANGED <<reader, file, bind, global, max_threads, out, batches,
                   handed, nread>>
    /\ UNCHANGED writerVars


(***************************************************************************)
(* Scan.  The end of an invocation hands the rows of the chunk to the host *)
(* (duckdb_data_chunk_set_size); the host stops invoking a worker that     *)
(* returned an empty chunk.  out[w] is every row worker w handed over and   *)
(* batches[w] the length of out[w] at the end of each of its invocations.  *)
(***************************************************************************)
Returned(l) ==
    [l EXCEPT !.pc = IF Len(l.chunk) = 0 THEN "stopped" ELSE "idle",
              !.chunk = <<>>]

SetLocal(w, l) ==
    /\ local' = [local EXCEPT ![w] = l]
    /\ UNCHANGED <<out, batches>>

Return(w, l) ==
    /\ local' = [local EXCEPT ![w] = Returned(l)]
    /\ out' = [out EXCEPT ![w] = @ \o l.chunk]
    /\ batches' = [batches EXCEPT ![w] = Append(@, Len(out[w]) + Len(l.chunk))]

\* entry of bcf_read_function / bam_read_function: where the invocation of
\* an idle cursor goes
EntersDone(l) == l.pc = "idle" /\ l.done

EntersClaim(l) == l.pc = "idle" /\ ~l.done /\ l.needs_next_contig

\* mutant: the entry does not test done
EntersLoopWhenDone(l) == l.pc = "idle" /\ ~l.needs_next_contig
EntersLoop(l) == l.pc = "idle" /\ ~l.done /\ ~l.needs_next_contig

\* an error set by a per-thread init fails the query, and the host invokes
\* the scan function of a failed query no more
QueryFailed == \E w \in Workers : local[w].pc = "failed"

\* an invocation of a cursor that is done: the empty chunk
scan_done(w) ==
    /\ ~QueryFailed
    /\ EntersDone(local[w])
    /\ Return(w, local[w])
    /\ UNCHANGED <<reader, file, bind, global, max_threads, handed, nread,
                   initIn>>
    /\ UNCHANGED writerVars

(***************************************************************************)
(* claim_next_contig, one level of its recursion at a time.  ret is "zero" *)
(* (returns 0), "one" (returns 1) or "again" (the self-call).  handed[c]   *)
(* counts how often index c was handed to a call.  pc "claim0" is the call *)
(* at the entry of an invocation, "claim1" the call from the row loop.     *)
(***************************************************************************)
\* mutant: the counter is read but not advanced
FetchNoAdd(v) == v

FetchAndAdd(v) == v + 1

\* mutant: a contig without iterator ends the claim instead of being skipped
ClaimStepStopsAtEmpty(l, g, f) ==
    IF ~l.is_parallel \/ g.n_contigs = 0
    THEN [ret |-> "zero", l |-> l, g |-> g, got |-> -1]
    ELSE LET next == g.current_contig
             g1 == [g EXCEPT !.current_contig = FetchAndAdd(next)]
             itr == IF l.idx /\ QueryGivesItr(f, next) THEN ContigItr(next) ELSE NoItr
             l1 == [l EXCEPT !.assigned_contig = next, !.itr = itr]
         IN IF next >= g.n_contigs
            THEN [ret |-> "zero", l |-> l, g |-> g1, got |-> -1]
            ELSE IF itr = NoItr
                 THEN [ret |-> "zero", l |-> l1, g |-> g1, got |-> next]
                 ELSE [ret |-> "one", g |-> g1, got |-> next,
                       l |-> [l1 EXCEPT !.needs_next_contig = FALSE]]

ClaimStep(l, g, f) ==
    IF ~l.is_parallel \/ g.n_contigs = 0
    THEN [ret |-> "zero", l |-> l, g |-> g, got |-> -1]
    ELSE LET next == g.current_contig
             g1 == [g EXCEPT !.current_contig = FetchAndAdd(next)]
             itr == IF l.idx /\ QueryGivesItr(f, next) THEN ContigItr(next) ELSE NoItr
             l1 == [l EXCEPT !.assigned_contig = next, !.itr = itr]
         IN IF next >= g.n_contigs
            THEN [ret |-> "zero", l |-> l, g |-> g1, got |-> -1]
            ELSE IF itr = NoItr
                 THEN [ret |-> "again", l |-> l1, g |-> g1, got |-> next]
                 ELSE [ret |-> "one", g |-> g1, got |-> next,
                       l |-> [l1 EXCEPT !.needs_next_contig = FALSE]]

(***************************************************************************)
(* The row loop of an invocation.  The loop touches the worker's own       *)
(* cursor and chunk only, so it is one step up to the next call of         *)
(* claim_next_contig or to the return of the invocation.                   *)
(***************************************************************************)
ReadPos(l) == IF l.itr.kind = "none" THEN l.fpos ELSE l.itr.pos

AtEnd(f, b, l) == ReadPos(l) >= Len(ItrRecords(f, b, l.itr))

\* the record the read returns, and the cursor after the read
ReadRec(f, b, l) == ItrRecords(f, b, l.itr)[ReadPos(l) + 1]

Advanced(f, b, l) ==
    IF l.itr.kind = "none"
    THEN [l EXCEPT !.fpos = @ + 1, !.rec = ReadRec(f, b, l)]
    ELSE [l EXCEPT !.itr.pos = @ + 1, !.rec = ReadRec(f, b, l)]

TidyMode(b) == b.tidy_format /\ b.n_samples > 0

\* mutant: the buffered record is dropped after its first sample
TidyAdvanceDropsRecord(l, b) ==
    IF TidyMode(b)
    THEN [l EXCEPT !.tidy_current_sample = @ + 1, !.tidy_record_valid = FALSE]
    ELSE l

\* the tail of the loop body: advance the sample cursor of tidy layout
TidyAdvance(l, b) ==
    IF TidyMode(b)
    THEN [l EXCEPT !.tidy_current_sample = @ + 1,
                   !.tidy_record_valid = (l.tidy_current_sample + 1 < b.n_samples)]
    ELSE l

\* one output row: the record and, in tidy layout, the sample it is for
Row(rec, b, current_sample) ==
    <<rec[1], rec[2], IF TidyMode(b) THEN current_sample ELSE -1>>

Emit(l, b, current_sample) ==
    TidyAdvance([l EXCEPT !.chunk = Append(@, Row(l.rec, b, current_sample))], b)

NeedRead(l, b) ==
    ~(TidyMode(b) /\ l.tidy_record_valid /\ l.tidy_current_sample < b.n_samples)

\* the row loop of bcf_read_function from cursor l on, up to the point where
\* the invocation returns or calls claim_next_contig; k counts the reads
\* that gave a record
RECURSIVE bcf_row_loop(_, _, _, _)
bcf_row_loop(f, b, l, k) ==
    LET r == OpenRegion(f, b, l.next_region_idx)
        fresh == [Advanced(f, b, l) EXCEPT
                     !.tidy_current_sample = IF TidyMode(b) THEN 0 ELSE @,
                     !.tidy_record_valid = IF TidyMode(b) THEN TRUE ELSE @]
    IN IF ~(Len(l.chunk) < VectorSize)
       THEN [l |-> l, reads |-> k, ret |-> TRUE]
       ELSE IF ~NeedRead(l, b)
       THEN bcf_row_loop(f, b, Emit(l, b, l.tidy_current_sample), k)
       ELSE IF ~AtEnd(f, b, l)
       THEN bcf_row_loop(f, b, Emit(fresh, b, 0), k + 1)
       ELSE IF l.is_parallel
       THEN [l |-> [l EXCEPT !.pc = "claim1"], reads |-> k, ret |-> FALSE]
       ELSE IF b.n_regions > 0
       THEN IF r.itr # NoItr
            THEN bcf_row_loop(f, b, [l EXCEPT !.itr = r.itr,
                                              !.next_region_idx = r.next], k)
            ELSE [l |-> [l EXCEPT !.itr = NoItr, !.done = TRUE,
                                  !.next_region_idx = r.next],
                  reads |-> k, ret |-> TRUE]
       ELSE [l |-> [l EXCEPT !.done = TRUE], reads |-> k, ret |-> TRUE]

\* the row loop of bam_read_function, likewise
RECURSIVE bam_row_loop(_, _, _, _)
bam_row_loop(f, b, l, k) ==
    IF ~(Len(l.chunk) < VectorSize)
    THEN [l |-> l, reads |-> k, ret |-> TRUE]
    ELSE IF ~AtEnd(f, b, l)
    THEN bam_row_loop(f, b, Emit(Advanced(f, b, l), b, 0), k + 1)
    ELSE IF l.is_parallel
    THEN [l |-> [l EXCEPT !.needs_next_contig = TRUE, !.pc = "claim1"],
          reads |-> k, ret |-> FALSE]
    ELSE [l |-> [l EXCEPT !.done = TRUE], reads |-> k, ret |-> TRUE]

RunLoop(w, x) ==
    /\ IF x.ret THEN Return(w, x.l) ELSE SetLocal(w, x.l)
    /\ nread' = [nread EXCEPT ![w] = @ + x.reads]

\* the row loop of the reader at hand
RowLoop(l) ==
    IF reader = "bcf" THEN bcf_row_loop(file, bind, l, 0)
    ELSE bam_row_loop(file, bind, l, 0)

\* one call of claim_next_contig (one level of its recursion) with the code
\* of the worker that follows it up to its next call or to the return of
\* the invocation: that code touches the worker's own cursor and chunk only
claim_next_contig(w) ==
    /\ ~QueryFailed
    /\ local[w].pc \in {"claim0", "claim1"} \/ EntersClaim(local[w])
    /\ LET l == local[w]
           atEntry == l.pc \in {"idle", "claim0"}
           c == ClaimStep(l, global, file)
       IN /\ global' = c.g
          /\ handed' = IF c.got >= 0 THEN [handed EXCEPT ![c.got] = @ + 1]
                        ELSE handed
          /\ IF c.ret = "again"
             THEN /\ SetLocal(w, [c.l EXCEPT !.pc = IF atEntry THEN "claim0"
                                                    ELSE "claim1"])
                  /\ UNCHANGED nread
             ELSE IF c.ret = "zero"
             THEN Return(w, [c.l EXCEPT !.done = TRUE]) /\ UNCHANGED nread
             ELSE IF atEntry \/ reader = "bcf"
                  THEN RunLoop(w, RowLoop(c.l))
                  ELSE Return(w, c.l) /\ UNCHANGED nread
    /\ UNCHANGED <<reader, file, bind, max_threads, initIn>>
    /\ UNCHANGED writerVars

\* an invocation of a cursor that has data to go on with
bcf_read_step(w) ==
    /\ reader = "bcf"
    /\ ~QueryFailed
    /\ EntersLoop(local[w])
    /\ RunLoop(w, RowLoop(local[w]))
    /\ UNCHANGED <<reader, file, bind, global, max_threads, handed, initIn>>
    /\ UNCHANGED writerVars

bam_read_step(w) ==
    /\ reader = "bam"
    /\ ~QueryFailed
    /\ EntersLoop(local[w])
    /\ RunLoop(w, RowLoop(local[w]))
    /\ UNCHANGED <<reader, file, bind, global, max_threads, handed, initIn>>
    /\ UNCHANGED writerVars

Next ==
    \/ Bind
    \/ read_global_init
    \/ \E w \in Workers : read_local_init(w)
    \/ \E w \in Workers : scan_done(w)
    \/ \E w \in Workers : claim_next_contig(w)
    \/ \E w \in Workers : bcf_read_step(w)
    \/ \E w \in Workers : bam_read_step(w)

Spec == Init /\ [][Next]_vars

SpecWide == InitWide /\ [][Next]_vars

TypeOK ==
    /\ reader \in {"bcf", "bam"}
    /\ \A w \in Workers : local[w].pc \in
          {"none", "failed", "idle", "claim0", "claim1", "stopped"}


(***************************************************************************)
(* Projection pushdown.  The three readers declare it, so the host asks    *)
(* the scan for the columns of the query only: projection lists their      *)
(* schema positions in the order of the query, and the chunk handed to the *)
(* scan has one vector per requested column, vector i belonging to column  *)
(* projection[i].  A record gives one value per schema column.  A vector   *)
(* cell is <<>> while not written and <<v>> when it holds v.               *)
(***************************************************************************)
FieldVals == {0, 1}

Readers == {"bcf", "bam", "tabix"}

\* no file is being scanned
ScanIdle ==
    /\ InitWith({0}, 0)
    /\ reader = "bcf" /\ ~file.indexed /\ file.n_samples = 0

\* the column lists a query can ask for: columns of the schema, each once
Projections(n) ==
    { q \in UNION { [1..k -> 0..(n - 1)] : k \in 1..n } :
        \A i, j \in DOMAIN q : q[i] = q[j] => i = j }

AllColumns(n) == [i \in 1..n |-> i - 1]

EmptyChunk(width) == [i \in 1..width |-> <<>>]

InitProj ==
    /\ ScanIdle
    /\ lscan = None /\ dscan = None
    /\ \E rd \in Readers : \E n \in 1..MaxCols : \E rec \in [0..(n - 1) -> FieldVals] :
          pscan = [pc |-> "bound", reader |-> rd, n_cols |-> n, rec |-> rec,
                   projection |-> <<>>, column_ids |-> <<>>,
                   vectors |-> <<>>, fault |-> "none"]

\* the tail of bcf_read_local_init / bam_read_local_init: the requested
\* columns are copied into the cursor
column_ids_init ==
    /\ pscan # None /\ pscan.pc = "bound" /\ pscan.reader \in {"bcf", "bam"}
    /\ \E q \in Projections(pscan.n_cols) :
          pscan' = [pscan EXCEPT !.pc = "ready", !.projection = q,
                                 !.column_ids = q]
    /\ UNCHANGED <<scanVars, lscan, dscan>>

\* tabix_init asks the host for no column list
tabix_init ==
    /\ pscan # None /\ pscan.pc = "bound" /\ pscan.reader = "tabix"
    /\ \E q \in Projections(pscan.n_cols) :
          pscan' = [pscan EXCEPT !.pc = "ready", !.projection = q]
    /\ UNCHANGED <<scanVars, lscan, dscan>>

\* the column loop of bcf_read_function: vector i takes column column_ids[i]
bcf_columns(rec, column_ids, vectors) ==
    [i \in DOMAIN vectors |->
        IF i \in DOMAIN column_ids THEN <<rec[column_ids[i]]>> ELSE vectors[i]]

\* the column loop of bam_read_function
bam_columns(rec, column_ids, vectors) ==
    [i \in DOMAIN vectors |->
        IF i \in DOMAIN column_ids THEN <<rec[column_ids[i]]>> ELSE vectors[i]]

\* the field loop of tabix_scan: field c goes to vector c of the chunk, for
\* every column of the schema; outside are the fields whose vector the
\* chunk does not have
tabix_columns(rec, n_cols, vectors) ==
    [vectors |-> [i \in DOMAIN vectors |->
                     IF i - 1 < n_cols THEN <<rec[i - 1]>> ELSE vectors[i]],
     outside |-> { c \in 0..(n_cols - 1) : c + 1 \notin DOMAIN vectors }]

bcf_scan_row ==
    /\ pscan # None /\ pscan.pc = "ready" /\ pscan.reader = "bcf"
    /\ pscan' = [pscan EXCEPT !.pc = "written",
                    !.vectors = bcf_columns(pscan.rec, pscan.column_ids,
                                            EmptyChunk(Len(pscan.projection)))]
    /\ UNCHANGED <<scanVars, lscan, dscan>>

bam_scan_row ==
    /\ pscan # None /\ pscan.pc = "ready" /\ pscan.reader = "bam"
    /\ pscan' = [pscan EXCEPT !.pc = "written",
                    !.vectors = bam_columns(pscan.rec, pscan.column_ids,
                                            EmptyChunk(Len(pscan.projection)))]
    /\ UNCHANGED <<scanVars, lscan, dscan>>

\* a write to a vector the chunk does not have is undefined: the build may
\* drop it or stop the process
tabix_scan ==
    /\ pscan # None /\ pscan.pc = "ready" /\ pscan.reader = "tabix"
    /\ LET t == tabix_columns(pscan.rec, pscan.n_cols,
                              EmptyChunk(Len(pscan.projection)))
       IN IF t.outside = {}
          THEN pscan' = [pscan EXCEPT !.pc = "written", !.vectors = t.vectors]
          ELSE \/ pscan' = [pscan EXCEPT !.pc = "written", !.fault = "dropped",
                                         !.vectors = t.vectors]
               \/ pscan' = [pscan EXCEPT !.pc = "crashed", !.fault = "crash"]
    /\ UNCHANGED <<scanVars, lscan, dscan>>

NextProj ==
    \/ column_ids_init
    \/ tabix_init
    \/ bcf_scan_row
    \/ bam_scan_row
    \/ tabix_scan

SpecProj == InitProj /\ [][NextProj]_vars

(***************************************************************************)
(* List columns.  An integer or float INFO field, or FORMAT field of a     *)
(* sample, is stored as an array of values; a float is modelled by its bit *)
(* pattern.  A list vector is the child array of all elements and one      *)
(* entry (offset, length) per row; valid is the validity bit of the row.   *)
(* The rows are those of one record in tidy layout, one per sample.        *)
(***************************************************************************)
bcf_int32_missing == -2147483647 - 1

bcf_int32_vector_end == -2147483647

\* the bit patterns 0x7F800001 and 0x7F800002
bcf_float_missing == 255 * (2^23) + 1

bcf_float_vector_end == 255 * (2^23) + 2

bcf_float_is_missing(v) == v = bcf_float_missing

bcf_float_is_vector_end(v) == v = bcf_float_vector_end

IntVals == {3, 5, bcf_int32_missing, bcf_int32_vector_end}

FloatVals == {3, 5, bcf_float_missing, bcf_float_vector_end}

\* mutant: only the missing value is filtered
int32_kept_missing_only(v) == v # bcf_int32_missing

\* the test of both loops on an integer
int32_kept(v) == v # bcf_int32_missing /\ v # bcf_int32_vector_end

\* the test of both loops on a float
float_kept(v) == ~bcf_float_is_missing(v) /\ ~bcf_float_is_vector_end(v)

Kept(type, v) == IF type = "int" THEN int32_kept(v) ELSE float_kept(v)

\* the first loop: count the values that are kept
RECURSIVE CountLoop(_, _, _, _)
CountLoop(type, vals, v, length) ==
    IF v >= Len(vals) THEN length
    ELSE CountLoop(type, vals, v + 1,
                   IF Kept(type, vals[v + 1]) THEN length + 1 ELSE length)

\* the second loop: child_data[entry.offset + write_idx] = values[v]
RECURSIVE FillLoop(_, _, _, _, _, _)
FillLoop(type, vals, v, child, offset, write_idx) ==
    IF v >= Len(vals) THEN child
    ELSE IF Kept(type, vals[v + 1])
         THEN FillLoop(type, vals, v + 1,
                       [child EXCEPT ![offset + write_idx + 1] = vals[v + 1]],
                       offset, write_idx + 1)
         ELSE FillLoop(type, vals, v + 1, child, offset, write_idx)

\* the list branch for a field that has values; the cells that
\* duckdb_list_vector_set_size adds hold 0 until they are written
list_entry(type, vec, vals) ==
    LET offset == Len(vec.child)
        length == CountLoop(type, vals, 0, 0)
        sized == vec.child \o [i \in 1..length |-> 0]
        child == IF length > 0 THEN FillLoop(type, vals, 0, sized, offset, 0)
                 ELSE vec.child
    IN [child |-> child,
        entries |-> Append(vec.entries, [offset |-> offset, length |-> length,
                                         valid |-> TRUE])]

\* the branch for a field without values: an invalid row with an empty entry
null_entry(vec) ==
    [child |-> vec.child,
     entries |-> Append(vec.entries, [offset |-> Len(vec.child), length |-> 0,
                                      valid |-> FALSE])]

info_list(type, vec, values) ==
    LET ret_info == Len(values)
    IN IF ret_info > 0 THEN list_entry(type, vec, values) ELSE null_entry(vec)

format_list(type, vec, values, n_samples, sample_idx) ==
    LET ret_fmt == Len(values)
        vals_per_sample == ret_fmt \div n_samples
        sample_vals == SubSeq(values, sample_idx * vals_per_sample + 1,
                              sample_idx * vals_per_sample + vals_per_sample)
    IN IF ret_fmt > 0 THEN list_entry(type, vec, sample_vals) ELSE null_entry(vec)

ValsOf(type) == IF type = "int" THEN IntVals ELSE FloatVals

\* the arrays a field can store: an INFO field up to MaxStored values, a
\* FORMAT field the same number of values for every sample, or no value
StoredArrays(kind, type, n_samples) ==
    IF kind = "INFO"
    THEN UNION { [1..n -> ValsOf(type)] : n \in 0..MaxStored }
    ELSE UNION { [1..(n_samples * k) -> ValsOf(type)] :
                    k \in 0..(MaxStored \div n_samples) }

InitList ==
    /\ ScanIdle
    /\ pscan = None /\ dscan = None
    /\ \E kind \in {"INFO", "FORMAT"} : \E type \in {"int", "float"} :
       \E n \in 1..MaxSamples : \E values \in StoredArrays(kind, type, n) :
          lscan = [kind |-> kind, type |-> type, n_samples |-> n,
                   values |-> values, current_sample |-> 0,
                   vec |-> [child |-> <<>>, entries |-> <<>>]]

\* one row of the list column, for the sample current_sample
info_int_list ==
    /\ lscan # None /\ lscan.kind = "INFO" /\ lscan.type = "int"
    /\ lscan.current_sample < lscan.n_samples
    /\ lscan' = [lscan EXCEPT
          !.current_sample = @ + 1,
          !.vec = info_list("int", lscan.vec, lscan.values)]
    /\ UNCHANGED <<scanVars, pscan, dscan>>

info_float_list ==
    /\ lscan # None /\ lscan.kind = "INFO" /\ lscan.type = "float"
    /\ lscan.current_sample < lscan.n_samples
    /\ lscan' = [lscan EXCEPT
          !.current_sample = @ + 1,
          !.vec = info_list("float", lscan.vec, lscan.values)]
    /\ UNCHANGED <<scanVars, pscan, dscan>>

format_int_list ==
    /\ lscan # None /\ lscan.kind = "FORMAT" /\ lscan.type = "int"
    /\ lscan.current_sample < lscan.n_samples
    /\ lscan' = [lscan EXCEPT
          !.current_sample = @ + 1,
          !.vec = format_list("int", lscan.vec, lscan.values,
                                     lscan.n_samples, lscan.current_sample)]
    /\ UNCHANGED <<scanVars, pscan, dscan>>

format_float_list ==
    /\ lscan # None /\ lscan.kind = "FORMAT" /\ lscan.type = "float"
    /\ lscan.current_sample < lscan.n_samples
    /\ lscan' = [lscan EXCEPT
          !.current_sample = @ + 1,
          !.vec = format_list("float", lscan.vec, lscan.values,
                                     lscan.n_samples, lscan.current_sample)]
    /\ UNCHANGED <<scanVars, pscan, dscan>>

NextList ==
    \/ info_int_list
    \/ info_float_list
    \/ format_int_list
    \/ format_float_list

SpecList == InitList /\ [][NextList]_vars


(***************************************************************************)
(* Rows of a scan as multisets.                                            *)
(***************************************************************************)
\* the rows one record gives: one, or one per sample in tidy layout
RowsOfRec(rec, b) ==
    IF TidyMode(b) THEN [s \in 1..b.n_samples |-> Row(rec, b, s - 1)]
    ELSE <<Row(rec, b, 0)>>

RECURSIVE RowsOfSeq(_, _)
RowsOfSeq(recs, b) ==
    IF recs = <<>> THEN <<>>
    ELSE RowsOfRec(Head(recs), b) \o RowsOfSeq(Tail(recs), b)

\* the rows of one single-worker sequential scan of the whole file
SequentialRows == RowsOfSeq(FileSeq(file), bind)

Occurrences(seq, x) == Cardinality({ i \in DOMAIN seq : seq[i] = x })

\* how often row x was handed to the host, over all workers
EmitCount(x) ==
    Cardinality({ p \in Workers \X (1..(Len(SequentialRows) * MaxWorkers + VectorSize)) :
                    p[2] \in DOMAIN out[p[1]] /\ out[p[1]][p[2]] = x })

EmittedRows == UNION { { out[w][i] : i \in DOMAIN out[w] } : w \in Workers }

SameMultisetAsSequential ==
    \A x \in EmittedRows \cup { SequentialRows[i] : i \in DOMAIN SequentialRows } :
        EmitCount(x) = Occurrences(SequentialRows, x)

Started(w) == local[w].pc # "none"

\* every started worker has returned its empty batch, and one was started
ScanOver ==
    /\ \E w \in Workers : local[w].pc = "stopped"
    /\ \A w \in Workers : local[w].pc \in {"none", "stopped"}

\* the scan runs in parallel mode and every started worker holds the index
ParallelScan ==
    /\ bind # None /\ global # None
    /\ bind.has_index /\ bind.n_contigs > 1 /\ bind.n_regions = 0
    /\ \A w \in Workers : Started(w) => local[w].idx

(***************************************************************************)
(* C1: under any interleaving of claim_next_contig calls, the indices       *)
(* handed out are exactly 0 .. min(counter, n) - 1, each to exactly one     *)
(* call: no index is skipped and none is handed out twice.                  *)
(***************************************************************************)
C1_ExactlyOnceClaim ==
    global # None =>
        \A c \in DOMAIN handed :
            handed[c] = IF c < Min(global.current_contig, global.n_contigs)
                        THEN 1 ELSE 0

\* every contig was handed out and two workers hold one each
C1_Witness ==
    /\ global # None
    /\ global.n_contigs >= 2
    /\ \A c \in DOMAIN handed : handed[c] = 1
    /\ \E v, w \in Workers :
          /\ local[v].idx /\ local[w].idx
          /\ local[v].assigned_contig >= 0 /\ local[w].assigned_contig >= 0
          /\ local[v].assigned_contig # local[w].assigned_contig

(***************************************************************************)
(* C2: read_bcf, index present, more than one contig, no region, every      *)
(* worker holding the index: once every started worker has returned its     *)
(* empty batch, the rows emitted by all workers are, as a multiset, the     *)
(* rows of a sequential scan of the whole file.                             *)
(***************************************************************************)
C2_BcfParallelEqualsSequential ==
    (reader = "bcf" /\ ParallelScan /\ ScanOver) => SameMultisetAsSequential

\* two workers have scanned a contig each
C2_Witness ==
    /\ reader = "bcf" /\ ParallelScan /\ ScanOver
    /\ \E v, w \in Workers : v # w /\ Len(out[v]) > 0 /\ Len(out[w]) > 0

(***************************************************************************)
(* C3: read_bam, index present, more than one contig, no region: once every *)
(* started worker has returned its empty batch, the rows emitted by all     *)
(* workers are the rows of a sequential scan of the whole file, the records *)
(* placed on no declared contig included.                                   *)
(***************************************************************************)
C3_BamParallelEqualsSequential ==
    (reader = "bam" /\ ParallelScan /\ ScanOver) => SameMultisetAsSequential

(***************************************************************************)
(* C4: in parallel mode, when a claimed contig has no records, the scan     *)
(* goes on: the contigs after it are claimed too, every row of a claimed    *)
(* contig is emitted, and the contig without records contributes no row.    *)
(***************************************************************************)
RowsOfContig(c) == RowsOfSeq(RecsOf(file, c), bind)

ClaimedContigs == { c \in DOMAIN handed : handed[c] > 0 }

C4_EmptyContigSkip ==
    ( /\ ParallelScan /\ ScanOver
      /\ \E c \in ClaimedContigs : CntOf(file, c) = 0 )
    => /\ ClaimedContigs = 0..(bind.n_contigs - 1)
       /\ \A c \in ClaimedContigs :
             \A i \in DOMAIN RowsOfContig(c) : EmitCount(RowsOfContig(c)[i]) = 1
       /\ \A c \in ClaimedContigs :
             CntOf(file, c) = 0 => \A x \in EmittedRows : x[1] # c

(***************************************************************************)
(* C5: parallel mode selected from the bind data, but the worker's own      *)
(* index load failed: the worker scans the whole file sequentially, so when *)
(* it has returned its empty batch it has emitted the rows of a sequential  *)
(* scan, and it raised no error.                                            *)
(***************************************************************************)
C5_IndexLoadFailureFallsBack ==
    \A w \in Workers :
        ( /\ bind # None
          /\ bind.has_index /\ bind.n_contigs > 1 /\ bind.n_regions = 0
          /\ initIn[w] # None /\ initIn[w].openOk /\ ~initIn[w].loadOk )
        => /\ ~local[w].err
           /\ (local[w].pc = "stopped" => out[w] = SequentialRows)

(***************************************************************************)
(* C6: tidy layout with n_samples >= 1: the rows of a cursor come in groups *)
(* of n_samples consecutive rows of one record, for samples 0, 1, ...,      *)
(* n_samples - 1 in that order, across batch boundaries, and a record is    *)
(* read only when the rows of the record before it are all emitted.         *)
(***************************************************************************)
CursorRows(w) == out[w] \o local[w].chunk

C6_TidyExpansion ==
    (bind # None /\ TidyMode(bind)) =>
        \A w \in Workers :
            LET rows == CursorRows(w)
                n == bind.n_samples
            IN /\ \A i \in DOMAIN rows :
                     /\ rows[i][3] = (i - 1) % n
                     /\ rows[i][3] > 0 =>
                           (rows[i][1] = rows[i - 1][1] /\ rows[i][2] = rows[i - 1][2])
               /\ Len(rows) <= nread[w] * n
               /\ nread[w] > 0 => Len(rows) > (nread[w] - 1) * n
               /\ local[w].pc \in {"idle", "stopped"} /\ ~local[w].tidy_record_valid
                     => Len(rows) = nread[w] * n

\* a batch boundary fell between two samples of one record, and the rows of
\* the remaining samples were emitted by a later invocation
C6_Witness ==
    /\ bind # None /\ TidyMode(bind) /\ bind.n_samples >= 2
    /\ \E w \in Workers : \E j \in DOMAIN batches[w] :
          /\ batches[w][j] % bind.n_samples # 0
          /\ local[w].pc = "stopped"
          /\ nread[w] >= 2


(***************************************************************************)
(* C7: for each reader that declares projection pushdown and for the same  *)
(* record, a scan initialised with a strict subset of the columns writes,  *)
(* into the vector of each requested column, the value that a scan         *)
(* initialised with all columns writes for that column.                   *)
(***************************************************************************)
FullScanRow ==
    LET n == pscan.n_cols IN
    IF pscan.reader = "bcf"
    THEN bcf_columns(pscan.rec, AllColumns(n), EmptyChunk(n))
    ELSE IF pscan.reader = "bam"
    THEN bam_columns(pscan.rec, AllColumns(n), EmptyChunk(n))
    ELSE tabix_columns(pscan.rec, n, EmptyChunk(n)).vectors

C7_ProjectionCorrectness ==
    ( /\ pscan # None /\ pscan.pc = "written"
      /\ Len(pscan.projection) < pscan.n_cols )
    => \A i \in DOMAIN pscan.projection :
          pscan.vectors[i] = FullScanRow[pscan.projection[i] + 1]


(***************************************************************************)
(* C8: global init enables the claim operation exactly when the bind data   *)
(* has an index, more than one contig and no region; it then advertises     *)
(* min(contig_count, 16) workers, and one worker otherwise.  As stated, the *)
(* one worker's cursor always performs a full-file sequential scan.         *)
(***************************************************************************)
IsPrefix(s, t) == Len(s) <= Len(t) /\ \A i \in DOMAIN s : s[i] = t[i]

CursorPublished(w) == local[w].pc \notin {"none", "failed"}

FullSequentialScan(w) ==
    /\ local[w].itr = NoItr
    /\ ~local[w].is_parallel
    /\ IsPrefix(CursorRows(w), SequentialRows)
    /\ local[w].pc = "stopped" => out[w] = SequentialRows

ParallelDecision ==
    LET cond == bind.has_index /\ bind.n_contigs > 1 /\ bind.n_regions = 0 IN
    /\ (global.n_contigs > 0) <=> cond
    /\ cond => max_threads = Min(bind.n_contigs, MaxThreadsCap)
    /\ ~cond => max_threads = 1

C8_Original ==
    (bind # None /\ global # None) =>
        /\ ParallelDecision
        /\ global.n_contigs = 0 =>
              \A w \in Workers : CursorPublished(w) => FullSequentialScan(w)

\* C8 as amended: the one worker scans the whole file sequentially when no
\* region was requested; with a region its cursor scans the regions only
C8_GlobalInitDecision ==
    (bind # None /\ global # None) =>
        /\ ParallelDecision
        /\ (global.n_contigs = 0 /\ bind.n_regions = 0) =>
              \A w \in Workers : CursorPublished(w) => FullSequentialScan(w)
        /\ global.n_contigs = 0 => \A w \in Workers : Started(w) => w = 1

C8_Witness ==
    /\ bind # None /\ global # None
    /\ bind.n_contigs > MaxThreadsCap
    /\ max_threads = MaxThreadsCap
    /\ \E w \in Workers : local[w].pc = "stopped" /\ Len(out[w]) > 0

(***************************************************************************)
(* C9: a region is requested and the worker cannot load an index: per-      *)
(* thread init sets an error and publishes no cursor, and no row is ever    *)
(* produced.                                                                *)
(***************************************************************************)
C9_RegionWithoutIndexIsFatal ==
    \A w \in Workers :
        (bind # None /\ bind.n_regions > 0 /\ initIn[w] # None /\ ~initIn[w].loadOk)
        => /\ local[w].pc = "failed"
           /\ local[w].err
           /\ \A v \in Workers : CursorRows(v) = <<>> /\ nread[v] = 0

C9_Witness ==
    \E w \in Workers :
        /\ bind # None /\ bind.n_regions > 0
        /\ initIn[w] # None /\ initIn[w].openOk /\ ~initIn[w].loadOk
        /\ local[w].pc = "failed"
        /\ \E j \in DOMAIN bind.regions : CntOf(file, bind.regions[j]) > 0

(***************************************************************************)
(* C10: the list emitted for an integer or float list field (INFO, or      *)
(* FORMAT of one sample) holds exactly the stored values that are neither  *)
(* the missing nor the vector-end sentinel, in stored order, and its       *)
(* length is the count of those values.                                    *)
(***************************************************************************)
Sentinels(type) ==
    IF type = "int" THEN {bcf_int32_missing, bcf_int32_vector_end}
    ELSE {bcf_float_missing, bcf_float_vector_end}

\* the values stored for the row of sample s (0-based)
StoredFor(s) ==
    IF lscan.kind = "INFO" THEN lscan.values
    ELSE LET k == Len(lscan.values) \div lscan.n_samples
         IN [i \in 1..k |-> lscan.values[s * k + i]]

EmittedList(r) ==
    LET e == lscan.vec.entries[r]
    IN [i \in 1..e.length |-> lscan.vec.child[e.offset + i]]

NonSentinel(type, stored) ==
    LET keep(v) == v \notin Sentinels(type) IN SelectSeq(stored, keep)

C10_ListSentinelFiltering ==
    lscan # None =>
        \A r \in DOMAIN lscan.vec.entries :
            LET stored == StoredFor(r - 1)
                e == lscan.vec.entries[r]
            IN /\ e.valid <=> Len(lscan.values) > 0
               /\ e.valid =>
                     /\ EmittedList(r) = NonSentinel(lscan.type, stored)
                     /\ e.length = Cardinality({ i \in DOMAIN stored :
                                        stored[i] \notin Sentinels(lscan.type) })

\* storage [5, 3, MISSING, MISSING] gave the list [5, 3]
C10_Witness ==
    /\ lscan # None
    /\ lscan.kind = "INFO" /\ lscan.type = "int"
    /\ lscan.values = <<5, 3, bcf_int32_missing, bcf_int32_missing>>
    /\ Len(lscan.vec.entries) >= 1
    /\ EmittedList(1) = <<5, 3>>

(***************************************************************************)
(* The genotype column of read_bcf (FORMAT tag GT).  The genotype array    *)
(* holds ploidy values per sample; a value is (allele + 1) * 2 + phased,   *)
(* 0 and 1 encode a missing allele, and bcf_int32_vector_end pads a sample *)
(* that has fewer alleles than the record's ploidy.  The text is built in  *)
(* a buffer of GtBufSize bytes; text[i] is the byte at index i - 1.        *)
(***************************************************************************)
MaxAllele == 1
MaxPloidy == 2

GtBufSize == 64
GtPosLimit == 60

bcf_gt_phased(a) == (a + 1) * 2 + 1
bcf_gt_unphased(a) == (a + 1) * 2
bcf_gt_missing == 0

bcf_gt_is_phased_always(v) == TRUE
bcf_gt_is_phased(v) == v % 2 = 1
bcf_gt_is_missing(v) == v \div 2 = 0
bcf_gt_allele(v) == (v \div 2) - 1

GtVals ==
    { bcf_gt_unphased(a) : a \in -1..MaxAllele } \cup
    { bcf_gt_phased(a) : a \in -1..MaxAllele } \cup { bcf_int32_vector_end }

\* the genotypes of one sample of a record of the given ploidy: alleles, and
\* then only padding
SampleGts(ploidy) ==
    { g \in [1..ploidy -> GtVals] :
        /\ g[1] # bcf_int32_vector_end
        /\ \A p \in 1..(ploidy - 1) :
              g[p] = bcf_int32_vector_end => g[p + 1] = bcf_int32_vector_end }

\* printf's "%d"
DigitChar(d) ==
    CASE d = 0 -> "0" [] d = 1 -> "1" [] d = 2 -> "2" [] d = 3 -> "3"
      [] d = 4 -> "4" [] d = 5 -> "5" [] d = 6 -> "6" [] d = 7 -> "7"
      [] d = 8 -> "8" [] d = 9 -> "9"

RECURSIVE DecDigits(_)
DecDigits(n) ==
    IF n < 10 THEN <<DigitChar(n)>>
    ELSE Append(DecDigits(n \div 10), DigitChar(n % 10))

DecStr(n) == IF n < 0 THEN <<"-">> \o DecDigits(0 - n) ELSE DecDigits(n)

\* gt_str[pos++] = c
PutChar(b, c) ==
    [text |-> Append(b.text, c), pos |-> b.pos + 1,
     written |-> b.written \cup {b.pos}]

\* pos += snprintf(gt_str + pos, sizeof(gt_str) - pos, "%d", allele): at
\* most size - 1 characters and the terminator are stored, the full length
\* is returned
PutNumber(b, allele) ==
    LET d == DecStr(allele)
        room == GtBufSize - b.pos - 1
        n == Min(Len(d), room)
    IN [text |-> b.text \o SubSeq(d, 1, n), pos |-> b.pos + Len(d),
        written |-> b.written \cup (b.pos..(b.pos + n))]

EmptyBuf == [text |-> <<>>, pos |-> 0, written |-> {}]

\* the loop over the alleles of one sample, from allele p (0-based) on
RECURSIVE gt_loop(_, _, _, _)
gt_loop(sample_gt, ploidy, p, b) ==
    IF ~(p < ploidy /\ b.pos < GtPosLimit) THEN b
    ELSE LET v == sample_gt[p + 1]
             b1 == IF p > 0
                   THEN PutChar(b, IF bcf_gt_is_phased(v) THEN "|" ELSE "/")
                   ELSE b
         IN IF v = bcf_int32_vector_end THEN b1
            ELSE IF bcf_gt_is_missing(v)
                 THEN gt_loop(sample_gt, ploidy, p + 1, PutChar(b1, "."))
                 ELSE gt_loop(sample_gt, ploidy, p + 1,
                              PutNumber(b1, bcf_gt_allele(v)))

\* the GT cell of one sample: the text, or NULL
gt_cell(gt_ret, gt_arr, n_samples, sample_idx) ==
    IF gt_ret > 0 /\ gt_arr # <<>>
    THEN LET ploidy == gt_ret \div n_samples
             sample_gt == [p \in 1..ploidy |-> gt_arr[sample_idx * ploidy + p]]
             b == gt_loop(sample_gt, ploidy, 0, EmptyBuf)
             end == [b EXCEPT !.written = @ \cup {b.pos}]
         IN IF b.pos > 0
            THEN [valid |-> TRUE, text |-> end.text, written |-> end.written]
            ELSE [valid |-> FALSE, text |-> <<>>, written |-> end.written]
    ELSE [valid |-> FALSE, text |-> <<>>, written |-> {}]

\* what bcf_get_genotypes gives for a record: the values of every sample and
\* their number, or a negative code and nothing when the record has no GT.
\* The sample `at` has the genotype g, the others are 0/0.
GtArray(n, ploidy, at, g) ==
    [i \in 1..(n * ploidy) |->
        IF (i - 1) \div ploidy = at THEN g[((i - 1) % ploidy) + 1]
        ELSE bcf_gt_unphased(0)]

InitGt ==
    /\ ScanIdle
    /\ pscan = None /\ lscan = None
    /\ \E n \in 1..MaxSamples :
          \/ dscan = [kind |-> "gt", n_samples |-> n, gt_ret |-> -1,
                      gt_arr |-> <<>>, sample_idx |-> 0, cells |-> <<>>]
          \/ \E ploidy \in 1..MaxPloidy : \E at \in 0..(n - 1) :
             \E g \in SampleGts(ploidy) :
                dscan = [kind |-> "gt", n_samples |-> n,
                         gt_ret |-> n * ploidy,
                         gt_arr |-> GtArray(n, ploidy, at, g),
                         sample_idx |-> 0, cells |-> <<>>]

\* the GT column of the next sample
gt_decode ==
    /\ dscan # None /\ dscan.kind = "gt"
    /\ dscan.sample_idx < dscan.n_samples
    /\ dscan' = [dscan EXCEPT
          !.sample_idx = @ + 1,
          !.cells = Append(@, gt_cell(dscan.gt_ret, dscan.gt_arr,
                                      dscan.n_samples, dscan.sample_idx))]
    /\ UNCHANGED <<scanVars, pscan, lscan>>

NextGt == gt_decode

SpecGt == InitGt /\ [][NextGt]_vars

\* the genotype values of sample s (0-based) of the record
GtOfSample(s) ==
    LET ploidy == dscan.gt_ret \div dscan.n_samples
    IN [p \in 1..ploidy |-> dscan.gt_arr[s * ploidy + p]]

GtDecoded(s) == dscan # None /\ dscan.kind = "gt" /\ s < Len(dscan.cells)

\* C11: a diploid sample decodes to "0/1" for the unphased alleles 0 and 1,
\* to "1|1" for the phased alleles 1 and 1, and to "./1" or "1/." when its
\* first or its second allele is missing (and the other one is allele 1,
\* unphased).
C11_DiploidGenotypeText ==
    \A s \in 0..(MaxSamples + 1) :
        (GtDecoded(s) /\ dscan.gt_ret = 2 * dscan.n_samples) =>
            LET g == GtOfSample(s)
                cell == dscan.cells[s + 1]
            IN /\ (g[1] \in {bcf_gt_unphased(0), bcf_gt_phased(0)}
                      /\ g[2] = bcf_gt_unphased(1))
                  => (cell.valid /\ cell.text = <<"0", "/", "1">>)
               /\ (g[1] \in {bcf_gt_unphased(1), bcf_gt_phased(1)}
                      /\ g[2] = bcf_gt_phased(1))
                  => (cell.valid /\ cell.text = <<"1", "|", "1">>)
               /\ (bcf_gt_is_missing(g[1]) /\ g[2] = bcf_gt_unphased(1))
                  => (cell.valid /\ cell.text = <<".", "/", "1">>)
               /\ (g[1] \in {bcf_gt_unphased(1), bcf_gt_phased(1)}
                      /\ g[2] = bcf_gt_missing)
                  => (cell.valid /\ cell.text = <<"1", "/", ".">>)

\* the second sample of a record is 1|1 and was decoded to "1|1"
C11_Witness ==
    /\ GtDecoded(1)
    /\ dscan.gt_ret = 2 * dscan.n_samples
    /\ GtOfSample(1) = <<bcf_gt_phased(1), bcf_gt_phased(1)>>
    /\ dscan.cells[2].valid
    /\ dscan.cells[2].text = <<"1", "|", "1">>

(***************************************************************************)
(* Annotation (VEP) columns of read_bcf.  A text is a sequence of          *)
(* characters.  The Description of a header line is a sequence of pieces:  *)
(* the piece "Format: ", the characters "|" and the double quote, and      *)
(* pieces of other text (a piece of other text holds no separator and no   *)
(* part of "Format: "); a field name is the sequence of the pieces between *)
(* two separators.                                                         *)
(***************************************************************************)
MaxText == 4

VEP_MAX_FIELDS == 256

NaN == [nan |-> TRUE]
INT32_MIN == -2147483647 - 1

VepTags == <<"CSQ", "BCSQ", "ANN">>
NoTag == ""

\* the first index i >= from with s[i] = c, or 0 (strchr)
IndexFrom(s, c, from) ==
    LET hits == { i \in from..Len(s) : s[i] = c }
    IN IF hits = {} THEN 0 ELSE CHOOSE i \in hits : \A j \in hits : i <= j

parse_format_string_or_whole(description) ==
    LET at == IndexFrom(description, "Format: ", 1)
        quote == IndexFrom(description, "\"", at + 1)
        end == IF quote = 0 THEN Len(description) + 1 ELSE quote
        format == SubSeq(description, at + 1, end - 1)
    IN [format |-> format,
        n_fields |-> 1 + Cardinality({ i \in DOMAIN format :
                                           format[i] = "|" })]
\* the format that follows the first occurrence of the piece "Format: " up
\* to the next double quote, or None without such a piece (strstr)
parse_format_string(description) ==
    LET at == IndexFrom(description, "Format: ", 1)
    IN IF at = 0 THEN None
       ELSE LET quote == IndexFrom(description, "\"", at + 1)
                end == IF quote = 0 THEN Len(description) + 1 ELSE quote
                format == SubSeq(description, at + 1, end - 1)
            IN [format |-> format,
                n_fields |-> 1 + Cardinality({ i \in DOMAIN format :
                                                   format[i] = "|" })]

\* the names between the separators of the format
RECURSIVE split_format_fields(_)
split_format_fields(format) ==
    LET bar == IndexFrom(format, "|", 1)
    IN IF bar = 0 THEN <<format>>
       ELSE <<SubSeq(format, 1, bar - 1)>> \o
            split_format_fields(SubSeq(format, bar + 1, Len(format)))

vep_infer_type(field_name) ==
    IF field_name = <<"DISTANCE">> THEN "Integer"
    ELSE IF field_name = <<"Consequence">> THEN "String"
    ELSE IF \E i \in DOMAIN field_name : field_name[i] = "MAX_AF" THEN "Float"
    ELSE "String"

\* the first recognised tag the header declares as an INFO field, or NoTag
\* (NULL)
vep_detect_tag(hdr) ==
    LET present == { i \in DOMAIN VepTags : VepTags[i] \in DOMAIN hdr.info }
    IN IF present = {} THEN NoTag
       ELSE VepTags[CHOOSE i \in present : \A j \in present : i <= j]

vep_schema_parse(hdr) ==
    LET detected_tag == vep_detect_tag(hdr)
    IN IF detected_tag = NoTag THEN None
       ELSE LET hrec == hdr.info[detected_tag]
            IN IF ~hrec.has_description THEN None
               ELSE LET f == parse_format_string(hrec.description)
                    IN IF f = None \/ f.n_fields = 0
                                   \/ f.n_fields > VEP_MAX_FIELDS
                       THEN None
                       ELSE LET names == split_format_fields(f.format)
                            IN [tag_name |-> detected_tag,
                                n_fields |-> f.n_fields,
                                fields |-> [i \in 1..f.n_fields |->
                                    [name |-> names[i],
                                     type |-> vep_infer_type(names[i]),
                                     index |-> i - 1]]]

(***************************************************************************)
(* Parsing one annotation value.                                           *)
(***************************************************************************)
IsDigit(c) == c \in {"0", "1", "2", "3", "4", "5", "6", "7", "8", "9"}

DigitVal(c) ==
    CASE c = "0" -> 0 [] c = "1" -> 1 [] c = "2" -> 2 [] c = "3" -> 3
      [] c = "4" -> 4 [] c = "5" -> 5 [] c = "6" -> 6 [] c = "7" -> 7
      [] c = "8" -> 8 [] c = "9" -> 9

\* the number of leading digits of s from index i on
RECURSIVE DigitRun(_, _)
DigitRun(s, i) ==
    IF i <= Len(s) /\ IsDigit(s[i]) THEN 1 + DigitRun(s, i + 1) ELSE 0

RECURSIVE DigitsValue(_)
DigitsValue(s) ==
    IF s = <<>> THEN 0
    ELSE 10 * DigitsValue(SubSeq(s, 1, Len(s) - 1)) + DigitVal(s[Len(s)])

\* strtol(str, &endptr, 10) for a text of digits, letters, '.', ' ' and '-':
\* the value and the number of characters consumed
strtol(str) ==
    LET neg == str # <<>> /\ str[1] = "-"
        from == IF neg THEN 2 ELSE 1
        n == DigitRun(str, from)
        v == DigitsValue(SubSeq(str, from, from + n - 1))
    IN IF n = 0 THEN [val |-> 0, used |-> 0]
       ELSE [val |-> IF neg THEN 0 - v ELSE v, used |-> from + n - 1]

\* strtod for the same texts: digits with an optional '.', a value m / 10^e
strtod(str) ==
    LET neg == str # <<>> /\ str[1] = "-"
        from == IF neg THEN 2 ELSE 1
        n == DigitRun(str, from)
        dot == from + n <= Len(str) /\ str[from + n] = "."
        f == IF dot THEN DigitRun(str, from + n + 1) ELSE 0
        m == DigitsValue(SubSeq(str, from, from + n - 1) \o
                         SubSeq(str, from + n + 1, from + n + f))
    IN IF n = 0 /\ f = 0 THEN [val |-> [m |-> 0, e |-> 0], used |-> 0]
       ELSE [val |-> [m |-> IF neg THEN 0 - m ELSE m, e |-> f],
             used |-> from + n - 1 + (IF dot THEN 1 + f ELSE 0)]

vep_parse_int(str) ==
    IF str = <<>> \/ str = <<".">> THEN [ret |-> 0, result |-> INT32_MIN]
    ELSE LET r == strtol(str)
         IN IF r.used = 0 \/ r.used # Len(str)
            THEN [ret |-> -1, result |-> INT32_MIN]
            ELSE [ret |-> 1, result |-> r.val]

vep_parse_float(str) ==
    IF str = <<>> \/ str = <<".">> THEN [ret |-> 0, result |-> NaN]
    ELSE LET r == strtod(str)
         IN IF r.used = 0 \/ r.used # Len(str)
            THEN [ret |-> -1, result |-> NaN]
            ELSE [ret |-> 1, result |-> r.val]

count_char(s, c) == Cardinality({ i \in DOMAIN s : s[i] = c })

\* the token without its leading and trailing white space
RECURSIVE TrimLeft(_)
TrimLeft(s) ==
    IF s # <<>> /\ s[1] = " " THEN TrimLeft(SubSeq(s, 2, Len(s))) ELSE s

RECURSIVE TrimRight(_)
TrimRight(s) ==
    IF Len(s) > 1 /\ s[Len(s)] = " "
    THEN TrimRight(SubSeq(s, 1, Len(s) - 1)) ELSE s

MissingValue ==
    [str_value |-> None, int_value |-> INT32_MIN, float_value |-> NaN,
     is_missing |-> 1]

\* the value of one '|'-separated token for a field of the schema
TokenValue(field, raw) ==
    LET token == TrimRight(TrimLeft(raw))
    IN IF token # <<>> /\ token # <<".">>
       THEN [str_value |-> [s |-> token],
             int_value |-> IF field.type = "Integer"
                           THEN vep_parse_int(token).result ELSE INT32_MIN,
             float_value |-> IF field.type = "Float"
                             THEN vep_parse_float(token).result ELSE NaN,
             is_missing |-> 0]
       ELSE MissingValue

\* the loop of parse_single_transcript from field field_idx (0-based) on:
\* the values it sets
RECURSIVE transcript_loop(_, _, _, _)
transcript_loop(schema, token, field_idx, values) ==
    IF ~(field_idx < schema.n_fields) THEN values
    ELSE LET next_pipe == IndexFrom(token, "|", 1)
             raw == IF next_pipe = 0 THEN token
                    ELSE SubSeq(token, 1, next_pipe - 1)
             v == [values EXCEPT ![field_idx + 1] =
                      TokenValue(schema.fields[field_idx + 1], raw)]
         IN IF next_pipe = 0 THEN v
            ELSE transcript_loop(schema,
                                 SubSeq(token, next_pipe + 1, Len(token)),
                                 field_idx + 1, v)

parse_single_transcript(schema, transcript_str) ==
    [n_values |-> schema.n_fields,
     values |-> transcript_loop(schema, transcript_str, 0,
                                [i \in 1..schema.n_fields |-> MissingValue])]

\* strtok_r(copy, ",", &saveptr) and its continuation: the non-empty runs of
\* characters other than ','
RECURSIVE strtok_r(_)
strtok_r(s) ==
    IF s = <<>> THEN <<>>
    ELSE IF s[1] = "," THEN strtok_r(SubSeq(s, 2, Len(s)))
    ELSE LET comma == IndexFrom(s, ",", 1)
         IN IF comma = 0 THEN <<s>>
            ELSE <<SubSeq(s, 1, comma - 1)>> \o
                 strtok_r(SubSeq(s, comma + 1, Len(s)))

vep_record_parse(schema, csq_value) ==
    IF schema = None \/ csq_value = <<>> THEN None
    ELSE LET n_transcripts == count_char(csq_value, ",") + 1
             tokens == strtok_r(csq_value)
             n == Min(Len(tokens), n_transcripts)
         IN IF n = 0 THEN None
            ELSE [n_transcripts |-> n,
                  transcripts |-> [t \in 1..n |->
                      parse_single_transcript(schema, tokens[t])]]

\* bcf_get_info_string gives a count that is not positive when the record
\* has no annotation; info is [ret, csq_value]
vep_record_parse_bcf(schema, info) ==
    IF info.ret <= 0 THEN None
    ELSE vep_record_parse(schema, info.csq_value)

vep_record_get_value(record, transcript_idx, field_idx) ==
    IF record = None THEN None
    ELSE IF transcript_idx < 0 \/ transcript_idx >= record.n_transcripts
    THEN None
    ELSE LET transcript == record.transcripts[transcript_idx + 1]
         IN IF field_idx < 0 \/ field_idx >= transcript.n_values THEN None
            ELSE transcript.values[field_idx + 1]

\* one child element of the list of an annotation column
VepElement(type, val) ==
    IF type = "String"
    THEN IF val # None /\ val.is_missing = 0 /\ val.str_value # None
         THEN [valid |-> TRUE, v |-> val.str_value]
         ELSE [valid |-> FALSE, v |-> None]
    ELSE IF val # None /\ val.is_missing = 0
         THEN [valid |-> TRUE,
               v |-> IF type = "Integer" THEN [i |-> val.int_value]
                     ELSE [f |-> val.float_value]]
         ELSE [valid |-> FALSE, v |-> None]

\* the cell of the annotation column of field field_idx for one row
vep_cell(schema, vep_rec, field_idx) ==
    LET field == schema.fields[field_idx + 1]
        length == IF vep_rec # None THEN vep_rec.n_transcripts ELSE 0
    IN IF length > 0
       THEN [valid |-> TRUE,
             list |-> [t \in 1..length |->
                 VepElement(field.type,
                            vep_record_get_value(vep_rec, t - 1, field_idx))]]
       ELSE [valid |-> FALSE, list |-> <<>>]

(***************************************************************************)
(* Bind and scan of the annotation columns for one record.  vbind is what  *)
(* bcf_read_bind publishes about them; a row is the cell of every          *)
(* projected annotation column.                                            *)
(***************************************************************************)
MaxDesc == 3

CoreColumns == <<"CHROM", "POS", "ID", "REF", "ALT", "QUAL", "FILTER">>

\* the columns bcf_read_bind adds up to the annotation columns
vep_bind_columns(hdr) ==
    LET schema == vep_schema_parse(hdr)
        core == [i \in DOMAIN CoreColumns |->
                    [name |-> <<CoreColumns[i]>>, vep |-> FALSE,
                     type |-> "core"]]
    IN IF schema # None
       THEN [vep_schema |-> schema, n_vep_fields |-> schema.n_fields,
             vep_col_start |-> Len(core), error |-> FALSE,
             columns |-> core \o [v \in 1..schema.n_fields |->
                 [name |-> <<"VEP_">> \o schema.fields[v].name, vep |-> TRUE,
                  type |-> <<"LIST", schema.fields[v].type>>]]]
       ELSE [vep_schema |-> None, n_vep_fields |-> 0,
             vep_col_start |-> Len(core), error |-> FALSE, columns |-> core]

DescPieces == {"Format: ", "|", "\"", "Allele", "DISTANCE"}

\* the header line of a tag: its Description value, if it has one
Descriptions ==
    { [has_description |-> TRUE, description |-> d] :
        d \in UNION { [1..n -> DescPieces] : n \in 0..MaxDesc } } \cup
    { [has_description |-> FALSE, description |-> <<>>] }

Described(d) == [has_description |-> TRUE, description |-> d]

\* a header whose first recognised tag has the description d
HeaderWith(tags, d) ==
    [info |-> [t \in tags |->
        IF \A i \in DOMAIN VepTags :
              (VepTags[i] \in tags /\ VepTags[i] # t) =>
                  \E j \in DOMAIN VepTags : VepTags[j] = t /\ j < i
        THEN d ELSE Described(<<"Format: ", "Allele">>)]]

ExampleHeader ==
    HeaderWith({"CSQ"}, Described(
        <<"\"", "Consequence annotations from Ensembl VEP. ", "Format: ",
          "Allele", "|", "Consequence", "|", "IMPACT", "\"">>))

NumericHeader ==
    HeaderWith({"ANN"}, Described(
        <<"\"", "Format: ", "Allele", "|", "DISTANCE", "|", "MAX_AF", "\"">>))

ExampleValue ==
    <<"A", "|", "m", "i", "s", "s", "e", "n", "s", "e", "_", "v", "a", "r",
      "i", "a", "n", "t", "|", "M", "O", "D", "E", "R", "A", "T", "E", ",",
      "T", "|", "s", "t", "o", "p", "_", "g", "a", "i", "n", "e", "d", "|",
      "H", "I", "G", "H">>

TextChars == {"A", "7", ",", "|", ".", " "}

Texts == UNION { [1..n -> TextChars] : n \in 1..MaxText }

\* what bcf_get_info_string gives for the annotation tag of the record
InfoStrings ==
    { [ret |-> Len(t), csq_value |-> t] : t \in Texts \cup {ExampleValue} }
    \cup { [ret |-> -3, csq_value |-> <<>>] }

VepStart(hdr, csq, tidy, n) ==
    [kind |-> "vep", pc |-> "start", hdr |-> hdr, csq |-> csq,
     tidy |-> tidy, n_samples |-> n, vbind |-> None, projected |-> {},
     current_sample |-> 0, rows |-> <<>>]

InitVep ==
    /\ ScanIdle
    /\ pscan = None /\ lscan = None
    /\ \/ \E tags \in SUBSET {"CSQ", "BCSQ", "ANN"} : \E d \in Descriptions :
              dscan = VepStart(HeaderWith(tags, d),
                               [ret |-> -3, csq_value |-> <<>>], FALSE, 0)
       \/ \E hdr \in {ExampleHeader, NumericHeader} :
          \E csq \in InfoStrings :
          \E tidy \in BOOLEAN :
              dscan = VepStart(hdr, csq, tidy, IF tidy THEN 2 ELSE 0)

vep_bind ==
    /\ dscan # None /\ dscan.kind = "vep" /\ dscan.pc = "start"
    /\ dscan' = [dscan EXCEPT !.pc = "bound",
                              !.vbind = vep_bind_columns(dscan.hdr)]
    /\ UNCHANGED <<scanVars, pscan, lscan>>

\* the host asks for one annotation column or for all of them
vep_init ==
    /\ dscan # None /\ dscan.kind = "vep" /\ dscan.pc = "bound"
    /\ dscan.vbind.vep_schema # None
    /\ \E p \in { {f} : f \in 0..(dscan.vbind.n_vep_fields - 1) } \cup
                { 0..(dscan.vbind.n_vep_fields - 1) } :
          dscan' = [dscan EXCEPT !.pc = "scan", !.projected = p]
    /\ UNCHANGED <<scanVars, pscan, lscan>>

\* one row of the record: the only row, or the row of the current sample in
\* tidy layout
vep_scan_row ==
    /\ dscan # None /\ dscan.kind = "vep" /\ dscan.pc = "scan"
    /\ Len(dscan.rows) < (IF dscan.tidy THEN dscan.n_samples ELSE 1)
    /\ LET need_vep == dscan.vbind.vep_schema # None /\ dscan.projected # {}
           vep_rec == IF need_vep /\ (~dscan.tidy \/ dscan.current_sample = 0)
                      THEN vep_record_parse_bcf(dscan.vbind.vep_schema,
                                                dscan.csq)
                      ELSE None
           row == [f \in dscan.projected |->
                      vep_cell(dscan.vbind.vep_schema, vep_rec, f)]
       IN dscan' = [dscan EXCEPT !.rows = Append(@, row),
                                 !.current_sample = @ + 1]
    /\ UNCHANGED <<scanVars, pscan, lscan>>

NextVep ==
    \/ vep_bind
    \/ vep_init
    \/ vep_scan_row

SpecVep == InitVep /\ [][NextVep]_vars

\* the segments of a text between its commas, the empty ones included
RECURSIVE Segments(_)
Segments(s) ==
    LET comma == IndexFrom(s, ",", 1)
    IN IF comma = 0 THEN <<s>>
       ELSE <<SubSeq(s, 1, comma - 1)>> \o
            Segments(SubSeq(s, comma + 1, Len(s)))

VepScanned == dscan # None /\ dscan.kind = "vep" /\ dscan.pc = "scan"

\* the list entry a column of field f shows for the segment seg
SegmentEntry(f, seg) ==
    LET schema == dscan.vbind.vep_schema
    IN VepElement(schema.fields[f + 1].type,
                  parse_single_transcript(schema, seg).values[f + 1])

\* C12: the first row of a record whose annotation value has k
\* comma-separated segments carries, in every projected annotation column,
\* a list of exactly k entries, entry t being the sub-field of segment t.
C12_OneEntryPerSegment ==
    (VepScanned /\ Len(dscan.rows) >= 1 /\ dscan.csq.ret > 0) =>
        LET segs == Segments(dscan.csq.csq_value)
        IN (\E t \in DOMAIN segs : segs[t] # <<>>) =>
           \A f \in dscan.projected :
              LET cell == dscan.rows[1][f]
              IN /\ cell.valid
                 /\ Len(cell.list) = Len(segs)
                 /\ \A t \in 1..Len(segs) :
                       cell.list[t] = SegmentEntry(f, segs[t])

\* C13: an integer or float sub-field whose text the conversion rejects (it
\* is not entirely a number) is a null entry of the column's list.
C13_BadNumberIsNull ==
    (VepScanned /\ Len(dscan.rows) >= 1) =>
        LET schema == dscan.vbind.vep_schema
            rec == vep_record_parse_bcf(schema, dscan.csq)
        IN rec # None =>
           \A f \in dscan.projected : \A t \in 1..rec.n_transcripts :
              LET field == schema.fields[f + 1]
                  val == rec.transcripts[t].values[f + 1]
                  bad == /\ val.is_missing = 0
                         /\ \/ /\ field.type = "Integer"
                               /\ vep_parse_int(val.str_value.s).ret = -1
                            \/ /\ field.type = "Float"
                               /\ vep_parse_float(val.str_value.s).ret = -1
              IN bad => ~dscan.rows[1][f].list[t].valid

VepBound == dscan # None /\ dscan.kind = "vep" /\ dscan.pc # "start"

NoRecognisedTag == DOMAIN dscan.hdr.info \cap {"CSQ", "BCSQ", "ANN"} = {}

\* the description of the first recognised tag has no Format: section
NoFormatSection ==
    /\ ~NoRecognisedTag
    /\ LET d == dscan.hdr.info[vep_detect_tag(dscan.hdr)]
       IN \/ ~d.has_description
          \/ \A i \in DOMAIN d.description : d.description[i] # "Format: "

\* C20: when the header declares no recognised annotation tag, or the
\* description of the tag has no Format: section, bind gets no schema,
\* raises no error and adds no annotation column.
C20_NoSchemaIsSoft ==
    (VepBound /\ (NoRecognisedTag \/ NoFormatSection)) =>
        /\ dscan.vbind.vep_schema = None
        /\ ~dscan.vbind.error
        /\ dscan.vbind.n_vep_fields = 0
        /\ \A c \in DOMAIN dscan.vbind.columns : ~dscan.vbind.columns[c].vep

\* a header with the CSQ tag whose description names fields but has no
\* Format: section was bound without annotation columns
C20_Witness ==
    /\ VepBound /\ NoFormatSection
    /\ "CSQ" \in DOMAIN dscan.hdr.info
    /\ dscan.hdr.info["CSQ"] = Described(<<"Allele", "|", "DISTANCE">>)
    /\ dscan.vbind.vep_schema = None
    /\ Len(dscan.vbind.columns) = Len(CoreColumns)

(***************************************************************************)
(* INFO and FORMAT fields at bind: validation of the header's declaration  *)
(* against the table of standard fields, and the type of the column.       *)
(* The arity classes BCF_VL_x and the scalar types BCF_HT_x are named by  *)
(* strings.                                                                *)
(***************************************************************************)
VlTypes == {"FIXED", "VAR", "A", "G", "R"}
HtTypes == {"Flag", "Integer", "Float", "String"}

FieldSpec(number_str, vl_type, count, type) ==
    [number_str |-> number_str, vl_type |-> vl_type, count |-> count,
     type |-> type]

VCF_FORMAT_SPECS ==
    [AD |-> FieldSpec("R", "R", 0, "Integer"),
     ADF |-> FieldSpec("R", "R", 0, "Integer"),
     ADR |-> FieldSpec("R", "R", 0, "Integer"),
     EC |-> FieldSpec("A", "A", 0, "Integer"),
     GL |-> FieldSpec("G", "G", 0, "Float"),
     GP |-> FieldSpec("G", "G", 0, "Float"),
     PL |-> FieldSpec("G", "G", 0, "Integer"),
     PP |-> FieldSpec("G", "G", 0, "Integer"),
     DP |-> FieldSpec("1", "FIXED", 1, "Integer"),
     LEN |-> FieldSpec("1", "FIXED", 1, "Integer"),
     FT |-> FieldSpec("1", "FIXED", 1, "String"),
     GQ |-> FieldSpec("1", "FIXED", 1, "Integer"),
     GT |-> FieldSpec("1", "FIXED", 1, "String"),
     HQ |-> FieldSpec("2", "FIXED", 2, "Integer"),
     MQ |-> FieldSpec("1", "FIXED", 1, "Integer"),
     PQ |-> FieldSpec("1", "FIXED", 1, "Integer"),
     PS |-> FieldSpec("1", "FIXED", 1, "Integer")]

VCF_INFO_SPECS ==
    [AD |-> FieldSpec("R", "R", 0, "Integer"),
     ADF |-> FieldSpec("R", "R", 0, "Integer"),
     ADR |-> FieldSpec("R", "R", 0, "Integer"),
     AC |-> FieldSpec("A", "A", 0, "Integer"),
     AF |-> FieldSpec("A", "A", 0, "Float"),
     CIGAR |-> FieldSpec("A", "A", 0, "String"),
     AA |-> FieldSpec("1", "FIXED", 1, "String"),
     AN |-> FieldSpec("1", "FIXED", 1, "Integer"),
     BQ |-> FieldSpec("1", "FIXED", 1, "Float"),
     DB |-> FieldSpec("0", "FIXED", 0, "Flag"),
     DP |-> FieldSpec("1", "FIXED", 1, "Integer"),
     END |-> FieldSpec("1", "FIXED", 1, "Integer"),
     H2 |-> FieldSpec("0", "FIXED", 0, "Flag"),
     H3 |-> FieldSpec("0", "FIXED", 0, "Flag"),
     MQ |-> FieldSpec("1", "FIXED", 1, "Float"),
     MQ0 |-> FieldSpec("1", "FIXED", 1, "Integer"),
     NS |-> FieldSpec("1", "FIXED", 1, "Integer"),
     SB |-> FieldSpec("4", "FIXED", 4, "Integer"),
     SOMATIC |-> FieldSpec("0", "FIXED", 0, "Flag"),
     VALIDATED |-> FieldSpec("0", "FIXED", 0, "Flag"),
     1000G |-> FieldSpec("0", "FIXED", 0, "Flag")]

vcf_lookup_format_spec(name) ==
    IF name \in DOMAIN VCF_FORMAT_SPECS THEN VCF_FORMAT_SPECS[name] ELSE None

vcf_lookup_info_spec(name) ==
    IF name \in DOMAIN VCF_INFO_SPECS THEN VCF_INFO_SPECS[name] ELSE None

vcf_check_number_strict(spec, header_vl_type) ==
    IF spec = None THEN FALSE ELSE header_vl_type # spec.vl_type
vcf_check_number(spec, header_vl_type) ==
    IF spec = None THEN FALSE
    ELSE IF spec.vl_type = "FIXED" THEN header_vl_type # "FIXED"
    ELSE header_vl_type # spec.vl_type /\ header_vl_type # "VAR"

vcf_check_type(spec, header_type) ==
    IF spec = None THEN FALSE ELSE header_type # spec.type

\* vcf_type_names[type]
vcf_type_names(type) == type

\* the body the two validation functions share: the corrected arity class,
\* the corrected type and the warnings emitted, in order
ValidateField(line, spec, field_name, header_vl_type, header_type) ==
    LET number == vcf_check_number(spec, header_vl_type)
        type == vcf_check_type(spec, header_type)
    IN [corrected_vl_type |-> IF number THEN spec.vl_type ELSE header_vl_type,
        corrected_type |-> header_type,
        warnings |->
          (IF number
           THEN << <<line, field_name, " should be Number=", spec.number_str,
                     " per VCF spec; correcting schema">> >>
           ELSE <<>>) \o
          (IF type
           THEN << <<line, field_name, " should be Type=",
                     vcf_type_names(spec.type),
                     " per VCF spec, but header declares Type=",
                     vcf_type_names(header_type), "; using header type">> >>
           ELSE <<>>)]

vcf_validate_format_field(field_name, header_vl_type, header_type) ==
    ValidateField("FORMAT/", vcf_lookup_format_spec(field_name), field_name,
                  header_vl_type, header_type)

vcf_validate_info_field(field_name, header_vl_type, header_type) ==
    ValidateField("INFO/", vcf_lookup_info_spec(field_name), field_name,
                  header_vl_type, header_type)

vcf_is_list_type(vl_type) == vl_type # "FIXED"

create_bcf_field_type(bcf_type, is_list) ==
    LET element_type ==
            CASE bcf_type = "Flag" -> "BOOLEAN"
              [] bcf_type = "Integer" -> "INTEGER"
              [] bcf_type = "Float" -> "FLOAT"
              [] OTHER -> "VARCHAR"
    IN IF is_list THEN <<"LIST", element_type>> ELSE <<element_type>>

\* the field_meta_t and the column of one header field
FieldMeta(v, field_name, header_type) ==
    LET is_list == vcf_is_list_type(v.corrected_vl_type)
    IN [name |-> field_name, header_type |-> header_type,
        schema_type |-> header_type, vl_type |-> v.corrected_vl_type,
        is_list |-> is_list,
        column |-> create_bcf_field_type(header_type, is_list)]

FieldNames ==
    DOMAIN VCF_FORMAT_SPECS \cup DOMAIN VCF_INFO_SPECS \cup {"XX"}

\* the declarations a parsed header can hold: the header parser forces the
\* fixed class on a field of type Flag
InitField ==
    /\ ScanIdle
    /\ pscan = None /\ lscan = None
    /\ \E line \in {"INFO", "FORMAT"} : \E name \in FieldNames :
       \E vl \in VlTypes : \E ht \in HtTypes :
          /\ ht = "Flag" => vl = "FIXED"
          /\ dscan = [kind |-> "field", pc |-> "start", line |-> line,
                      field_name |-> name, header_vl_type |-> vl,
                      header_type |-> ht, validated |-> None, meta |-> None,
                      cell |-> <<>>]

bind_info_field ==
    /\ dscan # None /\ dscan.kind = "field" /\ dscan.pc = "start"
    /\ dscan.line = "INFO"
    /\ LET v == vcf_validate_info_field(dscan.field_name,
                    dscan.header_vl_type, dscan.header_type)
       IN dscan' = [dscan EXCEPT
             !.pc = "bound", !.validated = v,
             !.meta = FieldMeta(v, dscan.field_name, dscan.header_type)]
    /\ UNCHANGED <<scanVars, pscan, lscan>>

bind_format_field ==
    /\ dscan # None /\ dscan.kind = "field" /\ dscan.pc = "start"
    /\ dscan.line = "FORMAT"
    /\ LET v == vcf_validate_format_field(dscan.field_name,
                    dscan.header_vl_type, dscan.header_type)
       IN dscan' = [dscan EXCEPT
             !.pc = "bound", !.validated = v,
             !.meta = FieldMeta(v, dscan.field_name, dscan.header_type)]
    /\ UNCHANGED <<scanVars, pscan, lscan>>

\* what the materializer stores in the row of an INFO column: has_data is
\* whether the record holds values of the field (ret > 0), first_missing
\* whether the first of them is the missing value.  A write is the shape of
\* what is stored in the column's vector at the row: "scalar", "list" or
\* "null" (the validity bit cleared).
info_write(field, has_data, first_missing) ==
    IF field.header_type = "Flag" THEN <<"scalar">>
    ELSE IF field.header_type \in {"Integer", "Float"}
    THEN IF has_data
         THEN IF field.is_list THEN <<"list">>
              ELSE IF ~first_missing THEN <<"scalar">> ELSE <<"null">>
         ELSE <<"null">>
    ELSE IF has_data
         THEN IF field.is_list THEN <<"list">> ELSE <<"scalar">>
         ELSE <<"null">>

\* the same for the FORMAT column of one sample; for a GT or another string
\* field has_data also says that the sample has a value
format_write(field, has_data, first_missing) ==
    IF field.header_type \in {"Integer", "Float"}
    THEN IF has_data
         THEN IF field.is_list THEN <<"list">>
              ELSE IF ~first_missing THEN <<"scalar">> ELSE <<"null">>
         ELSE <<"null">>
    ELSE IF has_data THEN <<"scalar">> ELSE <<"null">>

write_info_field ==
    /\ dscan # None /\ dscan.kind = "field" /\ dscan.pc = "bound"
    /\ dscan.line = "INFO"
    /\ \E has_data \in BOOLEAN : \E first_missing \in BOOLEAN :
          dscan' = [dscan EXCEPT
             !.pc = "written",
             !.cell = @ \o info_write(dscan.meta, has_data, first_missing)]
    /\ UNCHANGED <<scanVars, pscan, lscan>>

write_format_field ==
    /\ dscan # None /\ dscan.kind = "field" /\ dscan.pc = "bound"
    /\ dscan.line = "FORMAT"
    /\ \E has_data \in BOOLEAN : \E first_missing \in BOOLEAN :
          dscan' = [dscan EXCEPT
             !.pc = "written",
             !.cell = @ \o format_write(dscan.meta, has_data, first_missing)]
    /\ UNCHANGED <<scanVars, pscan, lscan>>

NextField ==
    \/ bind_info_field
    \/ bind_format_field
    \/ write_info_field
    \/ write_format_field

SpecField == InitField /\ [][NextField]_vars

FieldBound == dscan # None /\ dscan.kind = "field" /\ dscan.pc # "start"

FieldWritten == dscan # None /\ dscan.kind = "field" /\ dscan.pc = "written"

\* the entry of the table of standard fields for the field, if any
TableOf(line) == IF line = "INFO" THEN VCF_INFO_SPECS ELSE VCF_FORMAT_SPECS

InTable == dscan.field_name \in DOMAIN TableOf(dscan.line)

TableVl == TableOf(dscan.line)[dscan.field_name].vl_type

ElementOf(type) ==
    CASE type = "Flag" -> "BOOLEAN" [] type = "Integer" -> "INTEGER"
      [] type = "Float" -> "FLOAT" [] type = "String" -> "VARCHAR"

\* C14 as stated: the table's arity class is returned whenever the field is
\* in the table and the header's class differs from the table's.
C14_Original ==
    FieldBound =>
        /\ dscan.validated.corrected_vl_type =
              IF InTable /\ dscan.header_vl_type # TableVl
              THEN TableVl ELSE dscan.header_vl_type
        /\ dscan.validated.corrected_type = dscan.header_type

\* C14 (amended): validation always returns; the returned arity class is
\* the table's when the field is in the table and either the table's class
\* is fixed and the header's is not, or the table's class is A, G or R and
\* the header's is neither that class nor the unbounded class; otherwise it
\* is the header's.  The returned type is the header's type and the column's
\* element type is the one of the header type.
C14_FieldValidation ==
    FieldBound =>
        LET mismatch ==
                /\ InTable
                /\ \/ TableVl = "FIXED" /\ dscan.header_vl_type # "FIXED"
                   \/ /\ TableVl \in {"A", "G", "R"}
                      /\ dscan.header_vl_type \notin {TableVl, "VAR"}
        IN /\ dscan.validated.corrected_vl_type =
                 IF mismatch THEN TableVl ELSE dscan.header_vl_type
           /\ dscan.validated.corrected_type = dscan.header_type
           /\ dscan.meta.schema_type = dscan.header_type
           /\ dscan.meta.column[Len(dscan.meta.column)] =
                 ElementOf(dscan.header_type)

\* FORMAT/AD declared with the unbounded class keeps the header's class,
\* and FORMAT/DP declared per-allele gets the table's fixed class
C14_Witness ==
    /\ FieldBound /\ dscan.line = "FORMAT"
    /\ \/ /\ dscan.field_name = "AD" /\ dscan.header_vl_type = "VAR"
          /\ dscan.validated.corrected_vl_type = "VAR"
       \/ /\ dscan.field_name = "DP" /\ dscan.header_vl_type = "A"
          /\ dscan.validated.corrected_vl_type = "FIXED"

\* C17: the row of a projected INFO or FORMAT column of read_bcf gets
\* exactly one write, a value or a null, and a value has the shape of the
\* column type declared at bind: a list when the column is a list column,
\* a scalar otherwise.
C17_OneWriteOfDeclaredShape ==
    FieldWritten =>
        /\ Len(dscan.cell) = 1
        /\ dscan.cell[1] # "null" =>
              (dscan.cell[1] = "list" <=> dscan.meta.column[1] = "LIST")

(***************************************************************************)
(* The sequence/quality scratch buffers of read_bam (the extension under   *)
(* src/r and the one under src/src) and of read_fasta/read_fastq.  A       *)
(* buffer is known by the size of its allocation (0 for the NULL pointer)  *)
(* and the capacity the cursor has recorded for it.  realloc succeeds or   *)
(* fails; decoding a record of seq_len bases stores seq_len + 1 bytes.     *)
(***************************************************************************)
MaxSeqLen == 4
MaxBufRecs == 2

\* ensure_seq_buf of src/r: [l, ok]
ensure_seq_buf(l, seq_len, seq_ok, qual_ok) ==
    LET need == seq_len + 1
        new_cap == need * 2
    IN IF need > l.seq_buf_cap
       THEN IF ~seq_ok THEN [l |-> l, ok |-> FALSE]
            ELSE IF ~qual_ok
            THEN [l |-> [l EXCEPT !.seq_buf = new_cap], ok |-> FALSE]
            ELSE [l |-> [l EXCEPT !.seq_buf = new_cap, !.qual_buf = new_cap,
                                  !.seq_buf_cap = new_cap],
                  ok |-> TRUE]
       ELSE [l |-> l, ok |-> TRUE]

\* ensure_seq_buf of src/src: no result, the pointers are overwritten
src_ensure_seq_buf(l, seq_len, seq_ok, qual_ok) ==
    LET need == seq_len + 1
    IN IF need > l.seq_buf_cap
       THEN [l EXCEPT !.seq_buf_cap = need * 2,
                      !.seq_buf = IF seq_ok THEN need * 2 ELSE 0,
                      !.qual_buf = IF qual_ok THEN need * 2 ELSE 0]
       ELSE l

\* ensure_buf of the sequence reader, for the sequence buffer
ensure_buf(l, need, ok) ==
    LET n == need + 1
        new_cap == n * 2
    IN IF n > l.seq_buf_cap
       THEN IF ~ok THEN l
            ELSE [l EXCEPT !.seq_buf = new_cap, !.seq_buf_cap = new_cap]
       ELSE l

\* the invocation reports the error and returns an empty chunk
OomReturn(l, message) ==
    [l EXCEPT !.error = message, !.done = TRUE, !.row_count = 0,
              !.batches = Append(@, 0)]

\* the record is decoded into the buffers and its row is written
DecodeRow(l, seq_len) ==
    [l EXCEPT !.row_count = @ + 1, !.nrec = @ + 1,
              !.small_decode = @ \/ (seq_len > 0 /\ l.seq_buf < seq_len + 1)]

BufStart(rd) ==
    [kind |-> "buf", reader |-> rd, seq_buf |-> 0, qual_buf |-> 0,
     seq_buf_cap |-> 0, row_count |-> 0, nrec |-> 0, done |-> FALSE,
     error |-> "", batches |-> <<>>, alloc_failed |-> FALSE,
     small_decode |-> FALSE, crashed |-> FALSE]

InitBuf ==
    /\ ScanIdle
    /\ pscan = None /\ lscan = None
    /\ \E rd \in {"read_bam", "src_read_bam", "read_seq"} :
          dscan = BufStart(rd)

BufRunning(rd) ==
    /\ dscan # None /\ dscan.kind = "buf" /\ dscan.reader = rd
    /\ ~dscan.done /\ ~dscan.crashed
    /\ dscan.nrec < MaxBufRecs /\ dscan.row_count < VectorSize

\* one record of read_bam (src/r) in the row loop
bam_read_record ==
    /\ BufRunning("read_bam")
    /\ \E seq_len \in 0..MaxSeqLen : \E seq_ok \in BOOLEAN :
       \E qual_ok \in BOOLEAN :
          LET e == ensure_seq_buf(dscan, seq_len, seq_ok, qual_ok)
              failed == seq_len + 1 > dscan.seq_buf_cap
                            /\ (~seq_ok \/ ~qual_ok)
              l == [e.l EXCEPT !.alloc_failed = @ \/ failed]
          IN dscan' = IF ~e.ok
                      THEN OomReturn(l,
                        "read_bam: out of memory allocating sequence buffers")
                      ELSE DecodeRow(l, seq_len)
    /\ UNCHANGED <<scanVars, pscan, lscan>>

\* one record of read_bam (src/src) in the row loop; storing through the
\* NULL pointer is undefined: the process stops or goes on
src_bam_read_record ==
    /\ BufRunning("src_read_bam")
    /\ \E seq_len \in 0..MaxSeqLen : \E seq_ok \in BOOLEAN :
       \E qual_ok \in BOOLEAN : \E crash \in BOOLEAN :
          LET failed == seq_len + 1 > dscan.seq_buf_cap
                            /\ (~seq_ok \/ ~qual_ok)
              l == [src_ensure_seq_buf(dscan, seq_len, seq_ok, qual_ok)
                        EXCEPT !.alloc_failed = @ \/ failed]
              d == DecodeRow(l, seq_len)
          IN /\ crash => (seq_len > 0 /\ (l.seq_buf = 0 \/ l.qual_buf = 0))
             /\ dscan' = [d EXCEPT !.crashed = crash,
                             !.small_decode = @ \/
                                 (seq_len > 0 /\ l.qual_buf < seq_len + 1)]
    /\ UNCHANGED <<scanVars, pscan, lscan>>

\* one record of read_fasta / read_fastq with the sequence column projected
seq_read_record ==
    /\ BufRunning("read_seq")
    /\ \E seq_len \in 0..MaxSeqLen : \E ok \in BOOLEAN :
          IF seq_len > 0
          THEN LET failed == seq_len + 1 > dscan.seq_buf_cap /\ ~ok
                   l == [ensure_buf(dscan, seq_len, ok)
                             EXCEPT !.alloc_failed = @ \/ failed]
               IN dscan' = IF l.seq_buf = 0
                           THEN OomReturn(l,
                         "read_seq: out of memory allocating sequence buffer")
                           ELSE DecodeRow(l, seq_len)
          ELSE dscan' = DecodeRow(dscan, seq_len)
    /\ UNCHANGED <<scanVars, pscan, lscan>>

\* the row loop ends: the chunk is full or the data are exhausted
buf_return ==
    /\ dscan # None /\ dscan.kind = "buf"
    /\ ~dscan.done /\ ~dscan.crashed
    /\ dscan.row_count = VectorSize \/ dscan.nrec = MaxBufRecs
    /\ dscan' = [dscan EXCEPT !.batches = Append(@, dscan.row_count),
                              !.row_count = 0,
                              !.done = dscan.nrec = MaxBufRecs]
    /\ UNCHANGED <<scanVars, pscan, lscan>>

NextBuf ==
    \/ bam_read_record
    \/ src_bam_read_record
    \/ seq_read_record
    \/ buf_return

SpecBuf == InitBuf /\ [][NextBuf]_vars

BufCursor == dscan # None /\ dscan.kind = "buf"

\* C15: once an allocation has failed while a scratch buffer was grown, the
\* invocation has reported an out-of-memory error, handed over an empty
\* batch and stopped the cursor; and no record is ever decoded into a buffer
\* smaller than the record needs.
C15_AllocationFailureStopsScan ==
    BufCursor =>
        /\ ~dscan.small_decode
        /\ dscan.alloc_failed =>
              /\ dscan.error # ""
              /\ dscan.done
              /\ dscan.batches # <<>>
              /\ dscan.batches[Len(dscan.batches)] = 0

(***************************************************************************)
(* The row loop of read_bcf and read_bam seen from the result of the read  *)
(* call: a record (ret >= 0), the end of the data of the iterator or file  *)
(* (ret = -1), or a record the library rejects (ret < -1).  units is what  *)
(* is left to visit after the current iterator: contigs not yet claimed in *)
(* a parallel scan, regions not yet opened in a region scan of read_bcf    *)
(* (per-thread init opened the first one).                                 *)
(***************************************************************************)
MaxReads == 3
MaxUnits == 2

ReadResults == {0, -1, -2}

ErrStart(rd, mode, units) ==
    [kind |-> "err", reader |-> rd, pc |-> "loop",
     is_parallel |-> mode = "parallel",
     n_regions |-> IF mode = "regions" THEN units + 1 ELSE 0,
     units |-> units, done |-> FALSE, error |-> "", row_count |-> 0,
     batches |-> <<>>, nreads |-> 0, rejected |-> FALSE, rows_after |-> 0]

InitErr ==
    /\ ScanIdle
    /\ pscan = None /\ lscan = None
    /\ \/ \E mode \in {"sequential", "parallel", "regions"} :
          \E units \in 0..MaxUnits :
             /\ mode = "sequential" => units = 0
             /\ dscan = ErrStart("bcf", mode, units)
       \/ \E mode \in {"sequential", "parallel"} : \E units \in 0..MaxUnits :
             /\ mode = "sequential" => units = 0
             /\ dscan = ErrStart("bam", mode, units)

ErrLoop(rd) ==
    /\ dscan # None /\ dscan.kind = "err" /\ dscan.reader = rd
    /\ dscan.pc = "loop" /\ ~dscan.done
    /\ dscan.row_count < VectorSize /\ dscan.nreads < MaxReads

\* the row of a record that was read
ErrRow(l) ==
    [l EXCEPT !.row_count = @ + 1,
              !.rows_after = IF l.rejected THEN @ + 1 ELSE @]

\* read_bcf: one read of the row loop and what follows it up to the next
\* read or the end of the loop
bcf_read_result ==
    /\ ErrLoop("bcf")
    /\ \E ret \in ReadResults :
          LET l == [dscan EXCEPT !.nreads = @ + 1,
                                 !.rejected = @ \/ ret < -1]
          IN dscan' =
               IF ret < 0
               THEN IF l.is_parallel /\ l.units > 0
                    THEN [l EXCEPT !.units = @ - 1]
                    ELSE IF ~l.is_parallel /\ l.n_regions > 0 /\ l.units > 0
                    THEN [l EXCEPT !.units = @ - 1]
                    ELSE [l EXCEPT !.done = TRUE, !.pc = "break"]
               ELSE ErrRow(l)
    /\ UNCHANGED <<scanVars, pscan, lscan>>

\* read_bam: the same
bam_read_result ==
    /\ ErrLoop("bam")
    /\ \E ret \in ReadResults :
          LET l == [dscan EXCEPT !.nreads = @ + 1,
                                 !.rejected = @ \/ ret < -1]
          IN dscan' =
               IF ret < 0
               THEN IF l.is_parallel /\ ret = -1
                    THEN IF l.units > 0
                         THEN [l EXCEPT !.units = @ - 1, !.pc = "break"]
                         ELSE [l EXCEPT !.done = TRUE, !.pc = "break"]
                    ELSE [l EXCEPT !.done = TRUE, !.pc = "break"]
               ELSE ErrRow(l)
    /\ UNCHANGED <<scanVars, pscan, lscan>>

\* the end of the invocation: the rows are handed over; the host invokes the
\* scan again unless the chunk was empty
read_return ==
    /\ dscan # None /\ dscan.kind = "err"
    /\ \/ dscan.pc = "break"
       \/ dscan.pc = "loop" /\ (dscan.row_count = VectorSize
                                   \/ dscan.nreads = MaxReads)
    /\ dscan' = [dscan EXCEPT
          !.batches = Append(@, dscan.row_count),
          !.row_count = 0,
          !.pc = IF dscan.row_count = 0 \/ dscan.nreads = MaxReads
                 THEN "stopped" ELSE "loop"]
    /\ UNCHANGED <<scanVars, pscan, lscan>>

NextErr ==
    \/ bcf_read_result
    \/ bam_read_result
    \/ read_return

SpecErr == InitErr /\ [][NextErr]_vars

\* the invocation in which the library rejected a record has returned
RejectReturned ==
    /\ dscan # None /\ dscan.kind = "err"
    /\ dscan.rejected /\ dscan.row_count = 0 /\ dscan.pc # "break"
    /\ dscan.batches # <<>>

\* C16: once a read has returned a negative code other than the end of the
\* data, the invocation has reported an error with a message and the
\* cursor gives no row of a later record.
C16_RejectedRecordIsReported ==
    /\ RejectReturned => dscan.error # ""
    /\ (dscan # None /\ dscan.kind = "err") => dscan.rows_after = 0

(***************************************************************************)
(* The host that keeps invoking the scan of a cursor which returned an     *)
(* empty chunk; the invocations of a done cursor are followed until two    *)
(* empty batches in a row.                                                 *)
(***************************************************************************)
\* the last two batches of the cursor were both empty
TwoEmptyBatches(b) ==
    /\ Len(b) >= 2
    /\ b[Len(b)] = b[Len(b) - 1]
    /\ Len(b) >= 3 => b[Len(b) - 1] = b[Len(b) - 2]
    /\ Len(b) = 2 => b[1] = 0

scan_again(w) ==
    /\ ~QueryFailed
    /\ local[w].pc = "stopped"
    /\ local[w].done => ~TwoEmptyBatches(batches[w])
    /\ local' = [local EXCEPT ![w].pc = "idle"]
    /\ UNCHANGED <<reader, file, bind, global, max_threads, out, batches,
                   handed, nread, initIn>>
    /\ UNCHANGED writerVars

NextKeep ==
    \/ Bind
    \/ read_global_init
    \/ \E w \in Workers : read_local_init(w)
    \/ \E w \in Workers : scan_done(w)
    \/ \E w \in Workers : claim_next_contig(w)
    \/ \E w \in Workers : bcf_read_step(w)
    \/ \E w \in Workers : bam_read_step(w)
    \/ \E w \in Workers : scan_again(w)

SpecKeep == Init /\ [][NextKeep]_vars

\* the host keeps invoking: a step of a cursor that can be taken is taken
ScanStep(w) ==
    \/ scan_done(w)
    \/ claim_next_contig(w)
    \/ bcf_read_step(w)
    \/ bam_read_step(w)
    \/ scan_again(w)

SpecKeepFair == SpecKeep /\ \A w \in Workers : WF_vars(ScanStep(w))

\* the cursor of worker w has nothing left: no sample row of a buffered
\* record, no record under its iterator, no contig to claim, no region to
\* open
Exhausted(w) ==
    LET l == local[w]
    IN /\ NeedRead(l, bind)
       /\ IF l.is_parallel
          THEN /\ global.current_contig >= global.n_contigs
               /\ l.itr.kind = "contig" => AtEnd(file, bind, l)
          ELSE IF reader = "bcf" /\ bind.n_regions > 0
          THEN /\ l.next_region_idx >= bind.n_regions
               /\ l.itr.kind = "none" \/ AtEnd(file, bind, l)
          ELSE AtEnd(file, bind, l)

\* a bound on the invocations of a cursor that is not done: every one of
\* them gave a row or claimed a contig
InvocationBound ==
    LET rows == Len(FileSeq(file)) *
                    (IF TidyMode(bind) THEN bind.n_samples ELSE 1)
        regions == IF bind.n_regions > 0 THEN bind.n_regions ELSE 1
    IN regions * rows + file.nseq + 1

Published(w) == local[w].pc \notin {"none", "failed"}

C18_Inv ==
    \A w \in Workers : Published(w) =>
        /\ local[w].done => Exhausted(w)
        /\ ~local[w].done => Len(batches[w]) <= InvocationBound
        /\ ~local[w].done => ~TwoEmptyBatches(batches[w])

\* a step of a cursor that is done is an empty batch: no row, no read, no
\* claim, and the cursor stays done
C18_Act ==
    \A w \in Workers :
        (Published(w) /\ local[w].done /\ local'[w] # local[w]) =>
            /\ local'[w].done
            /\ local'[w] = [local[w] EXCEPT !.pc = local'[w].pc]
            /\ out' = out /\ nread' = nread
            /\ global' = global /\ handed' = handed
            /\ IF local[w].pc = "idle"
               THEN batches'[w] = Append(batches[w], Len(out[w]))
               ELSE batches'[w] = batches[w]

MaxExec == 2

FilePaths == {"", "a.fa", "b.fa", "c.fa.gz"}

\* the named parameter index_path: absent (NULL) or a text
IndexPathArgs ==
    {[given |-> FALSE, path |-> ""]} \cup
    {[given |-> TRUE, path |-> p] : p \in {"", "a.fai", "b.fai", "c.fai"}}

\* no bind data: bind set an error
NoBindData == [index_path |-> "", emitted |-> -1]

InitIndex ==
    /\ ScanIdle
    /\ pscan = None /\ lscan = None
    /\ \E file_path \in FilePaths : \E index_path \in IndexPathArgs :
       \E fai_build3 \in {0, -1} :
          dscan = [kind |-> "fai", pc |-> "start", file_path |-> file_path,
                   index_path |-> index_path, fai_build3 |-> fai_build3,
                   bind |-> NoBindData, execs |-> 0, rows |-> <<>>,
                   batches |-> <<>>]

fasta_index_bind ==
    /\ dscan # None /\ dscan.kind = "fai" /\ dscan.pc = "start"
    /\ IF dscan.file_path = "" \/ dscan.fai_build3 # 0
       THEN dscan' = [dscan EXCEPT !.pc = "failed"]
       ELSE dscan' = [dscan EXCEPT
               !.bind = [index_path |-> IF dscan.index_path.given
                                        THEN dscan.index_path.path ELSE "",
                         emitted |-> 0],
               !.pc = "bound"]
    /\ UNCHANGED <<scanVars, pscan, lscan>>

\* init of one execution of the bound statement
fasta_index_init ==
    /\ dscan # None /\ dscan.kind = "fai"
    /\ dscan.pc \in {"bound", "stopped"}
    /\ dscan.execs < MaxExec
    /\ dscan' = [dscan EXCEPT !.bind.emitted = 0, !.execs = @ + 1,
                              !.pc = "scan"]
    /\ UNCHANGED <<scanVars, pscan, lscan>>

fasta_index_scan ==
    /\ dscan # None /\ dscan.kind = "fai" /\ dscan.pc = "scan"
    /\ IF dscan.bind.emitted # 0
       THEN dscan' = [dscan EXCEPT !.batches = Append(@, 0),
                                   !.pc = "stopped"]
       ELSE dscan' = [dscan EXCEPT
               !.rows = Append(@, [success |-> TRUE,
                                   index_path |-> dscan.bind.index_path]),
               !.bind.emitted = 1,
               !.batches = Append(@, 1)]
    /\ UNCHANGED <<scanVars, pscan, lscan>>

NextIndex ==
    \/ fasta_index_bind
    \/ fasta_index_init
    \/ fasta_index_scan

SpecIndex == InitIndex /\ [][NextIndex]_vars

\* bind has published the bind data of the fasta_index call
IndexPublished ==
    dscan # None /\ dscan.kind = "fai" /\ dscan.pc \in {"bound", "scan", "stopped"}

\* C19: once bind has published the bind data, no init and no scan step
\* changes it (fasta_index).
C19_BindDataIsReadOnly ==
    [][IndexPublished => dscan'.bind = dscan.bind]_vars

(***************************************************************************)
(* Field validation run again on the same header line.  The only state the *)
(* validation touches is the process's warning sink: the callback pointer  *)
(* g_vcf_warning_func and what has been written to stderr.                 *)
(***************************************************************************)
MaxValidations == 2

\* mutant: a message that was already written is not written again
vcf_emit_warning_once(g_vcf_warning_func, stderr, msg) ==
    IF \E i \in 1..Len(stderr) : stderr[i][2] = msg THEN stderr
    ELSE Append(stderr, <<"[bcf_reader] ", msg>>)
vcf_emit_warning(g_vcf_warning_func, stderr, msg) ==
    IF g_vcf_warning_func # "NULL"
    THEN Append(stderr, <<"[bcf_reader] ", msg>>)
    ELSE Append(stderr, <<"Warning: ", msg>>)

RECURSIVE EmitAll(_, _, _)
EmitAll(g_vcf_warning_func, stderr, msgs) ==
    IF msgs = <<>> THEN stderr
    ELSE EmitAll(g_vcf_warning_func,
                 vcf_emit_warning(g_vcf_warning_func, stderr, Head(msgs)),
                 Tail(msgs))

InitTwice ==
    /\ ScanIdle
    /\ pscan = None /\ lscan = None
    /\ \E line \in {"INFO", "FORMAT"} : \E name \in FieldNames :
       \E vl \in VlTypes : \E ht \in HtTypes :
       \E func \in {"NULL", "duckdb_vcf_warning"} :
          /\ ht = "Flag" => vl = "FIXED"
          /\ dscan = [kind |-> "twice", line |-> line, field_name |-> name,
                      header_vl_type |-> vl, header_type |-> ht,
                      g_vcf_warning_func |-> func, stderr |-> <<>>,
                      runs |-> <<>>]

\* one bind of the header line: bcf_read_bind sets the callback and
\* validates the field; a run records what was returned and what the run
\* added to stderr
validate_field ==
    /\ dscan # None /\ dscan.kind = "twice"
    /\ Len(dscan.runs) < MaxValidations
    /\ LET func == "duckdb_vcf_warning"
           v == IF dscan.line = "INFO"
                THEN vcf_validate_info_field(dscan.field_name,
                         dscan.header_vl_type, dscan.header_type)
                ELSE vcf_validate_format_field(dscan.field_name,
                         dscan.header_vl_type, dscan.header_type)
           err == EmitAll(func, dscan.stderr, v.warnings)
       IN dscan' = [dscan EXCEPT
             !.g_vcf_warning_func = func,
             !.stderr = err,
             !.runs = Append(@,
                 [corrected_vl_type |-> v.corrected_vl_type,
                  corrected_type |-> v.corrected_type,
                  messages |-> SubSeq(err, Len(dscan.stderr) + 1, Len(err))])]
    /\ UNCHANGED <<scanVars, pscan, lscan>>

NextTwice == validate_field

SpecTwice == InitTwice /\ [][NextTwice]_vars

C22_EmptyBatchMeansDone ==
    \A w \in Workers :
        (local[w].pc = "stopped" /\ ~local[w].err) => local[w].done

\* worker w went through per-thread init and its index load failed
FellBack(w) ==
    /\ Started(w) /\ initIn[w] # None
    /\ initIn[w].openOk /\ ~initIn[w].loadOk

\* C23: read_bam, more than one worker advertised, every started worker
\* fell back to the sequential scan: when the scan is over each row of the
\* file was emitted exactly once over all workers.
C23_FallbackEmitsOnce ==
    ( /\ reader = "bam" /\ bind # None /\ global # None
      /\ max_threads > 1
      /\ \A w \in Workers : Started(w) => FellBack(w)
      /\ ScanOver )
    => SameMultisetAsSequential

\* C24: in tidy layout the row of every sample of a record carries, in each
\* projected annotation column, the list of the record's parse result (one
\* entry per transcript).
C24_TidyRowsCarryAnnotation ==
    (VepScanned /\ dscan.tidy) =>
        LET schema == dscan.vbind.vep_schema
            rec == vep_record_parse_bcf(schema, dscan.csq)
        IN \A s \in DOMAIN dscan.rows : \A f \in dscan.projected :
              dscan.rows[s][f] = vep_cell(schema, rec, f)

\* the text of one allele value
AlleleText(v) ==
    IF bcf_gt_is_missing(v) THEN <<".">> ELSE DecStr(bcf_gt_allele(v))

\* the alleles of a sample: its values before the padding
RECURSIVE AllelesOf(_)
AllelesOf(g) ==
    IF g = <<>> \/ Head(g) = bcf_int32_vector_end THEN <<>>
    ELSE <<Head(g)>> \o AllelesOf(Tail(g))

\* the alleles joined, a separator in front of each one but the first
RECURSIVE JoinAlleles(_, _)
JoinAlleles(a, first) ==
    IF a = <<>> THEN <<>>
    ELSE (IF first THEN <<>>
          ELSE <<IF bcf_gt_is_phased(Head(a)) THEN "|" ELSE "/">>)
         \o AlleleText(Head(a)) \o JoinAlleles(Tail(a), FALSE)

\* C25: the genotype text of a sample with k >= 1 alleles is its alleles
\* joined by k - 1 separators, whatever the ploidy of the record.
C25_GenotypeJoin ==
    \A s \in 0..(MaxSamples + 1) :
        (GtDecoded(s) /\ dscan.gt_ret > 0) =>
            LET a == AllelesOf(GtOfSample(s))
            IN Len(a) >= 1 =>
                  /\ dscan.cells[s + 1].valid
                  /\ dscan.cells[s + 1].text = JoinAlleles(a, TRUE)

(***************************************************************************)
(* The genotype text buffer under any ploidy: the loop of the genotype     *)
(* column taken one allele at a time.  Only the write position and the     *)
(* indices written are kept of the buffer.                                 *)
(***************************************************************************)
MaxGtPloidy == 32

\* genotype values whose texts have 1, 1, 4 and 10 characters, and the padding
GtBufVals ==
    { bcf_gt_missing, bcf_gt_unphased(1), bcf_gt_phased(1000),
      bcf_gt_unphased(1073741822), bcf_int32_vector_end }

InitGtBuf ==
    /\ ScanIdle
    /\ pscan = None /\ lscan = None
    /\ \E ploidy \in 1..MaxGtPloidy :
          dscan = [kind |-> "gtbuf", pc |-> "loop", ploidy |-> ploidy,
                   p |-> 0, b |-> EmptyBuf]

\* one iteration of the loop, on the value v of allele p
gt_append ==
    /\ dscan # None /\ dscan.kind = "gtbuf" /\ dscan.pc = "loop"
    /\ dscan.p < dscan.ploidy /\ dscan.b.pos < GtPosLimit
    /\ \E v \in GtBufVals :
          LET b1 == IF dscan.p > 0
                    THEN PutChar(dscan.b,
                                 IF bcf_gt_is_phased(v) THEN "|" ELSE "/")
                    ELSE dscan.b
              b2 == IF v = bcf_int32_vector_end THEN b1
                    ELSE IF bcf_gt_is_missing(v) THEN PutChar(b1, ".")
                    ELSE PutNumber(b1, bcf_gt_allele(v))
          IN dscan' = [dscan EXCEPT
                !.b = [b2 EXCEPT !.text = <<>>],
                !.p = @ + 1,
                !.pc = IF v = bcf_int32_vector_end THEN "break" ELSE "loop"]
    /\ UNCHANGED <<scanVars, pscan, lscan>>

\* gt_str[pos] = '\0' after the loop
gt_terminate ==
    /\ dscan # None /\ dscan.kind = "gtbuf"
    /\ \/ dscan.pc = "break"
       \/ /\ dscan.pc = "loop"
          /\ ~(dscan.p < dscan.ploidy /\ dscan.b.pos < GtPosLimit)
    /\ dscan' = [dscan EXCEPT !.b.written = @ \cup {dscan.b.pos},
                              !.pc = "done"]
    /\ UNCHANGED <<scanVars, pscan, lscan>>

NextGtBuf ==
    \/ gt_append
    \/ gt_terminate

SpecGtBuf == InitGtBuf /\ [][NextGtBuf]_vars

\* C30: every index of the genotype text buffer that is written, the
\* terminator's included, is within 0 .. GtBufSize - 1.
C30_GenotypeBufferBounds ==
    (dscan # None /\ dscan.kind = "gtbuf") =>
        \A i \in dscan.b.written : 0 <= i /\ i <= GtBufSize - 1

(***************************************************************************)
(* The per-record value caches of read_bcf.  The loaded flags are locals   *)
(* of one invocation; fetched counts, for the record the cursor holds, how *)
(* often the value buffer of a field was fetched from it.                  *)
(***************************************************************************)
CacheFields == {"INFO", "FORMAT", "GT"}

\* the projected columns of a row: one per field, and in wide layout one
\* per sample for a FORMAT field and for GT
CacheColumns(tidy_mode, n_samples, projected) ==
    { <<f, 0>> : f \in projected } \cup
    (IF tidy_mode THEN {}
     ELSE { <<f, s>> : f \in projected \ {"INFO"}, s \in 0..(n_samples - 1) })

\* the column loop of one row: a column fetches its field unless the flag
\* of the field is set
RECURSIVE TouchColumns(_, _, _)
TouchColumns(cols, loaded, fetched) ==
    IF cols = {} THEN [loaded |-> loaded, fetched |-> fetched]
    ELSE LET c == CHOOSE x \in cols : TRUE
             f == c[1]
         IN IF f \in loaded
            THEN TouchColumns(cols \ {c}, loaded, fetched)
            ELSE TouchColumns(cols \ {c}, loaded \cup {f},
                              [fetched EXCEPT ![f] = @ + 1])

InitCache ==
    /\ ScanIdle
    /\ pscan = None /\ lscan = None
    /\ \E n \in 0..MaxSamples : \E tidy \in BOOLEAN :
       \E projected \in (SUBSET CacheFields) \ {{}} :
       \E nrecs \in 0..MaxRecs :
          dscan = [kind |-> "cache", pc |-> "idle", n_samples |-> n,
                   tidy_format |-> tidy, projected |-> projected,
                   unread |-> nrecs, tidy_current_sample |-> 0,
                   tidy_record_valid |-> FALSE, loaded |-> {},
                   fetched |-> [f \in CacheFields |-> 0],
                   row_count |-> 0, done |-> FALSE]

\* entry of an invocation: the cache arrays are allocated and cleared
cache_enter ==
    /\ dscan # None /\ dscan.kind = "cache" /\ dscan.pc = "idle"
    /\ ~dscan.done
    /\ dscan' = [dscan EXCEPT !.pc = "loop", !.loaded = {}, !.row_count = 0]
    /\ UNCHANGED <<scanVars, pscan, lscan>>

\* one iteration of the row loop
cache_row ==
    /\ dscan # None /\ dscan.kind = "cache" /\ dscan.pc = "loop"
    /\ dscan.row_count < VectorSize
    /\ LET tidy_mode == dscan.tidy_format /\ dscan.n_samples > 0
           need_read == ~(tidy_mode /\ dscan.tidy_record_valid
                          /\ dscan.tidy_current_sample < dscan.n_samples)
       IN IF need_read /\ dscan.unread = 0
          THEN dscan' = [dscan EXCEPT !.done = TRUE, !.pc = "break"]
          ELSE LET d1 == IF need_read
                         THEN [dscan EXCEPT
                                 !.unread = @ - 1,
                                 !.tidy_current_sample = 0,
                                 !.tidy_record_valid = tidy_mode,
                                 !.loaded = {},
                                 !.fetched = [f \in CacheFields |-> 0]]
                         ELSE dscan
                   t == TouchColumns(
                            CacheColumns(tidy_mode, d1.n_samples, d1.projected),
                            d1.loaded, d1.fetched)
                   next_sample == d1.tidy_current_sample + 1
               IN dscan' = [d1 EXCEPT
                     !.loaded = t.loaded, !.fetched = t.fetched,
                     !.row_count = @ + 1,
                     !.tidy_current_sample =
                         IF tidy_mode THEN next_sample ELSE @,
                     !.tidy_record_valid =
                         IF tidy_mode /\ next_sample >= d1.n_samples
                         THEN FALSE ELSE @]
    /\ UNCHANGED <<scanVars, pscan, lscan>>

\* end of the invocation: the cache arrays are freed
cache_return ==
    /\ dscan # None /\ dscan.kind = "cache"
    /\ \/ dscan.pc = "break"
       \/ dscan.pc = "loop" /\ dscan.row_count = VectorSize
    /\ dscan' = [dscan EXCEPT
          !.pc = IF dscan.row_count = 0 THEN "stopped" ELSE "idle",
          !.loaded = {}]
    /\ UNCHANGED <<scanVars, pscan, lscan>>

NextCache ==
    \/ cache_enter
    \/ cache_row
    \/ cache_return

SpecCache == InitCache /\ [][NextCache]_vars

\* C26: the value buffer of a field is fetched at most once from the record
\* the cursor holds, whatever the columns, the sample rows and the batches
\* its rows go to.
C26_FetchedAtMostOnce ==
    (dscan # None /\ dscan.kind = "cache") =>
        \A f \in CacheFields : dscan.fetched[f] <= 1

(***************************************************************************)
(* The region chain of read_bcf: a region list r_0 .. r_(k-1), one         *)
(* iterator at a time.  A region is given by whether the query on it gives *)
(* an iterator and by the number of records under that iterator.  tried    *)
(* and opened are the region indices handed to the query function and      *)
(* those that gave an iterator, in the order of the calls; a row is        *)
(* <<region index, record number>>.                                        *)
(***************************************************************************)
MaxChain == 3
MaxChainRecs == 2

ChainRegions ==
    {[gives_itr |-> FALSE, n |-> 0]} \cup
    {[gives_itr |-> TRUE, n |-> n] : n \in 0..MaxChainRecs}

DuplicateRowsWarning == "Multi-region BCF/VCF queries are executed as a chained union of single-region iterators; overlapping regions may return duplicate rows"

InitChain ==
    /\ ScanIdle
    /\ pscan = None /\ lscan = None
    /\ \E k \in 1..MaxChain : \E regions \in [1..k -> ChainRegions] :
       \E has_idx \in BOOLEAN :
          dscan = [kind |-> "chain", pc |-> "none", regions |-> regions,
                   n_regions |-> k, has_idx |-> has_idx,
                   itr |-> -1, itr_pos |-> 0, next_region_idx |-> 0,
                   done |-> FALSE, error |-> FALSE, warnings |-> <<>>,
                   tried |-> <<>>, opened |-> <<>>, rows |-> <<>>,
                   batches |-> <<>>]

\* a chain that goes straight to the last region of the list
open_last_region(d) ==
    IF ~(d.next_region_idx < d.n_regions) THEN d
    ELSE LET i == d.n_regions - 1
             d1 == [d EXCEPT !.next_region_idx = i + 1,
                             !.tried = Append(@, i)]
         IN IF d.regions[i + 1].gives_itr
            THEN [d1 EXCEPT !.itr = i, !.itr_pos = 0,
                            !.opened = Append(@, i)]
            ELSE d1

\* while (next_region_idx < n_regions) { query regions[next_region_idx++];
\* if (itr) break; }: the state after the loop
RECURSIVE open_next_region(_)
open_next_region(d) ==
    IF ~(d.next_region_idx < d.n_regions) THEN d
    ELSE LET i == d.next_region_idx
             d1 == [d EXCEPT !.next_region_idx = i + 1,
                             !.tried = Append(@, i)]
         IN IF d.regions[i + 1].gives_itr
            THEN [d1 EXCEPT !.itr = i, !.itr_pos = 0,
                            !.opened = Append(@, i)]
            ELSE open_next_region(d1)

\* the same loop in per-thread init, which warns about a region it skips
RECURSIVE init_open_region(_)
init_open_region(d) ==
    IF ~(d.next_region_idx < d.n_regions) THEN d
    ELSE LET i == d.next_region_idx
             d1 == [d EXCEPT !.next_region_idx = i + 1,
                             !.tried = Append(@, i)]
         IN IF d.regions[i + 1].gives_itr
            THEN [d1 EXCEPT !.itr = i, !.itr_pos = 0,
                            !.opened = Append(@, i)]
            ELSE init_open_region(
                     [d1 EXCEPT !.warnings = Append(@, "skipping region")])

chain_local_init ==
    /\ dscan # None /\ dscan.kind = "chain" /\ dscan.pc = "none"
    /\ IF ~dscan.has_idx
       THEN dscan' = [dscan EXCEPT !.error = TRUE, !.pc = "failed"]
       ELSE LET d0 == IF dscan.n_regions > 1
                      THEN [dscan EXCEPT
                              !.warnings = Append(@, DuplicateRowsWarning)]
                      ELSE dscan
                d1 == init_open_region([d0 EXCEPT !.next_region_idx = 0])
            IN dscan' = IF d1.itr = -1
                        THEN [d1 EXCEPT !.done = TRUE, !.pc = "idle"]
                        ELSE [d1 EXCEPT !.pc = "idle"]
    /\ UNCHANGED <<scanVars, pscan, lscan>>

\* the row loop of one invocation from row_count on
RECURSIVE chain_row_loop(_, _)
chain_row_loop(d, row_count) ==
    IF ~(row_count < VectorSize) THEN d
    ELSE IF d.itr_pos < d.regions[d.itr + 1].n
    THEN chain_row_loop([d EXCEPT !.itr_pos = @ + 1,
                                  !.rows = Append(@, <<d.itr, d.itr_pos>>)],
                        row_count + 1)
    ELSE LET d1 == open_next_region([d EXCEPT !.itr = -1])
         IN IF d1.itr # -1 THEN chain_row_loop(d1, row_count)
            ELSE [d1 EXCEPT !.done = TRUE]

chain_scan ==
    /\ dscan # None /\ dscan.kind = "chain" /\ dscan.pc = "idle"
    /\ LET d == IF dscan.done THEN dscan ELSE chain_row_loop(dscan, 0)
       IN dscan' = [d EXCEPT
             !.batches = Append(@, Len(d.rows)),
             !.pc = IF Len(d.rows) = Len(dscan.rows) THEN "stopped"
                    ELSE "idle"]
    /\ UNCHANGED <<scanVars, pscan, lscan>>

NextChain ==
    \/ chain_local_init
    \/ chain_scan

SpecChain == InitChain /\ [][NextChain]_vars

ChainStarted ==
    dscan # None /\ dscan.kind = "chain" /\ dscan.pc \in {"idle", "stopped"}

StrictlyIncreasing(s) == \A i, j \in DOMAIN s : i < j => s[i] < s[j]

C27_Inv ==
    ChainStarted =>
        /\ dscan.next_region_idx <= dscan.n_regions
        \* the regions were tried in list order, each once, none left out
        /\ dscan.tried = [i \in 1..dscan.next_region_idx |-> i - 1]
        /\ StrictlyIncreasing(dscan.opened)
        /\ \A i \in DOMAIN dscan.opened :
              dscan.regions[dscan.opened[i] + 1].gives_itr
        \* the rows of a region come before the rows of a later one, and a
        \* region that was left gave all its rows
        /\ \A i, j \in DOMAIN dscan.rows :
              i < j => dscan.rows[i][1] <= dscan.rows[j][1]
        /\ \A r \in 0..(dscan.n_regions - 1) :
              (dscan.regions[r + 1].gives_itr /\ r < dscan.next_region_idx
               /\ dscan.itr # r) =>
                 Cardinality({i \in DOMAIN dscan.rows : dscan.rows[i][1] = r})
                     = dscan.regions[r + 1].n
        /\ dscan.done => dscan.next_region_idx = dscan.n_regions
        /\ dscan.n_regions > 1 =>
              (Len(dscan.warnings) >= 1
               /\ dscan.warnings[1] = DuplicateRowsWarning)

C27_Act ==
    (ChainStarted /\ dscan' # None /\ dscan'.kind = "chain") =>
        /\ dscan'.next_region_idx >= dscan.next_region_idx
        /\ dscan.done => dscan'.done

\* C27: the regions of the list are tried in list order, each once; the
\* next-region index never decreases and never exceeds k; the rows of a
\* region all come before the rows of a later region; the cursor is done
\* only when every region was tried; a list of more than one region gives
\* the duplicate-row diagnostic at init.
C27_RegionChain == []C27_Inv /\ [][C27_Act]_vars

\* three regions, the second without an iterator, the others with records:
\* all rows out and the cursor done
C27_Witness ==
    /\ ChainStarted /\ dscan.n_regions = 3 /\ dscan.done
    /\ dscan.opened = <<0, 2>>
    /\ dscan.regions[1].n >= 1 /\ dscan.regions[3].n >= 1
    /\ Len(dscan.rows) = dscan.regions[1].n + dscan.regions[3].n
    /\ dscan.pc = "stopped"

(***************************************************************************)
(* The calls of claim_next_contig on their own: workers that call it again *)
(* and again against one shared counter, for every pattern of contigs      *)
(* whose query gives no iterator.  A worker is parallel when it has its    *)
(* own index, or it fell back to the sequential read.  depth is the number *)
(* of self-calls the running call of a worker has made.                    *)
(***************************************************************************)
MaxClaimContigs == 3
MaxClaims == 2

ClaimFiles ==
    {[nseq |-> n, nullq |-> q] : n \in {0}, q \in {{}}} \cup
    UNION {{[nseq |-> n, nullq |-> q] : q \in SUBSET (0..(n - 1))} :
             n \in 1..MaxClaimContigs}

InitClaim ==
    /\ ScanIdle
    /\ pscan = None /\ lscan = None
    /\ \E f \in ClaimFiles : \E par \in [Workers -> BOOLEAN] :
          dscan = [kind |-> "claim", f |-> f,
                   g |-> [n_contigs |-> f.nseq, current_contig |-> 0],
                   w |-> [w \in Workers |->
                            [l |-> [is_parallel |-> par[w], idx |-> par[w],
                                    assigned_contig |-> -1, itr |-> NoItr,
                                    needs_next_contig |-> TRUE],
                             pc |-> "out", depth |-> 0, calls |-> 0,
                             ret |-> "none"]]]

\* one level of a call: the state of the model after ClaimStep by worker w
ClaimLevel(w, depth, calls) ==
    LET c == ClaimStep(dscan.w[w].l, dscan.g, dscan.f)
    IN dscan' = [dscan EXCEPT
          !.g = c.g,
          !.w[w] = [l |-> c.l,
                    pc |-> IF c.ret = "again" THEN "in" ELSE "out",
                    depth |-> IF c.ret = "again" THEN depth + 1 ELSE depth,
                    calls |-> calls,
                    ret |-> c.ret]]

\* a call from the read function: its outermost level
claim_call(w) ==
    /\ dscan # None /\ dscan.kind = "claim"
    /\ dscan.w[w].pc = "out" /\ dscan.w[w].calls < MaxClaims
    /\ ClaimLevel(w, 0, dscan.w[w].calls + 1)
    /\ UNCHANGED <<scanVars, pscan, lscan>>

\* return claim_next_contig(init, global): the next level of a running call
claim_self_call(w) ==
    /\ dscan # None /\ dscan.kind = "claim"
    /\ dscan.w[w].pc = "in"
    /\ ClaimLevel(w, dscan.w[w].depth, dscan.w[w].calls)
    /\ UNCHANGED <<scanVars, pscan, lscan>>

NextClaim ==
    \/ \E w \in Workers : claim_call(w)
    \/ \E w \in Workers : claim_self_call(w)

SpecClaim == InitClaim /\ [][NextClaim]_vars

SpecClaimFair == SpecClaim /\ \A w \in Workers : WF_vars(claim_self_call(w))

ClaimModel == dscan # None /\ dscan.kind = "claim"

InClaim(w) == ClaimModel /\ dscan.w[w].pc = "in"

\* the contigs the counter has not handed out yet
ContigsLeft(d) ==
    IF d.g.current_contig >= d.g.n_contigs THEN 0
    ELSE d.g.n_contigs - d.g.current_contig

C28_Inv ==
    ClaimModel =>
        \A w \in Workers :
            /\ dscan.w[w].depth <= dscan.g.n_contigs
            \* a call that is still running fetched an index below n_contigs
            /\ dscan.w[w].pc = "in" =>
                  dscan.w[w].depth + ContigsLeft(dscan) <= dscan.g.n_contigs

C28_Act ==
    (ClaimModel /\ dscan' # dscan) =>
        \A w \in Workers :
            dscan'.w[w].pc = "in" /\ dscan'.w[w] # dscan.w[w] =>
                /\ dscan'.g.current_contig = dscan.g.current_contig + 1
                /\ dscan.g.current_contig < dscan.g.n_contigs
                /\ ContigsLeft(dscan') < ContigsLeft(dscan)

\* C28: every call of claim_next_contig returns; a self-call follows an
\* increment of the shared counter that handed out an index below
\* n_contigs, and a call makes at most n_contigs self-calls.
C28_ClaimTerminates ==
    /\ []C28_Inv
    /\ [][C28_Act]_vars
    /\ \A w \in Workers : InClaim(w) ~> ~InClaim(w)

\* a call that went through every contig of the file and returned 0, with
\* another worker's call between its levels
C28_Witness ==
    /\ ClaimModel /\ dscan.g.n_contigs = MaxClaimContigs
    /\ \E w \in Workers :
          /\ dscan.w[w].pc = "out" /\ dscan.w[w].ret = "zero"
          /\ dscan.w[w].depth = dscan.g.n_contigs - 1
          /\ \E v \in Workers \ {w} : dscan.w[v].l.assigned_contig >= 0

(***************************************************************************)
(* cigar_to_string on the CIGAR buffer of a worker, one loop iteration at  *)
(* a time.  A CIGAR element is given by its two bit fields, the length     *)
(* (upper 28 bits) and the operation (lower 4 bits).  The CIGAR of a       *)
(* record is a pattern of one or two elements repeated n_cigar times.  Of  *)
(* the buffer the model keeps the highest index stored to (hi) and the     *)
(* characters the last snprintf stored (last).                             *)
(***************************************************************************)
MaxCigarOps == 4200

CigarBufSize == 8192

CigarMargin == 12

BAM_CIGAR_STR == <<"M", "I", "D", "N", "S", "H", "P", "=", "X", "B">>

bam_cigar_oplen(c) == c.len

bam_cigar_op(c) == c.op

bam_cigar_opchr(op) == IF op < Len(BAM_CIGAR_STR) THEN BAM_CIGAR_STR[op + 1] ELSE "?"

CigarLens == {1, 100, 10000000, 268435455}

CigarElems == {[len |-> n, op |-> o] : n \in CigarLens, o \in {0, 15}}

CigarPatterns ==
    {<<a>> : a \in CigarElems} \cup {<<a, b>> : a, b \in CigarElems}

\* cigar[i] of a record whose CIGAR repeats the pattern
CigarAt(pattern, i) == pattern[(i % Len(pattern)) + 1]

\* "%d%c" of one element
CigarPair(c) ==
    DecStr(bam_cigar_oplen(c)) \o <<bam_cigar_opchr(bam_cigar_op(c))>>

\* snprintf(buf + pos, size, "%d%c", ..): at most size - 1 characters and
\* the terminator are stored, the full length is returned
cigar_snprintf(pos, size, c) ==
    LET text == CigarPair(c)
        n == Min(Len(text), size - 1)
    IN [ret |-> Len(text), stored |-> SubSeq(text, 1, n), nul |-> pos + n]

\* mutant: the loop goes on while one more byte is free
CigarLoopGuardTight(i, n_cigar, pos, buf_size) ==
    i < n_cigar /\ pos + 1 < buf_size

CigarLoopGuard(i, n_cigar, pos, buf_size) ==
    i < n_cigar /\ pos + CigarMargin < buf_size

InitCigar ==
    /\ ScanIdle
    /\ pscan = None /\ lscan = None
    /\ \E pattern \in CigarPatterns : \E n_cigar \in {1, 2, 3, MaxCigarOps} :
          dscan = [kind |-> "cigar", pc |-> "loop", pattern |-> pattern,
                   n_cigar |-> n_cigar, i |-> 0, pos |-> 0, hi |-> -1,
                   last |-> <<>>, cut |-> FALSE]

cigar_append ==
    /\ dscan # None /\ dscan.kind = "cigar" /\ dscan.pc = "loop"
    /\ CigarLoopGuard(dscan.i, dscan.n_cigar, dscan.pos, CigarBufSize)
    /\ LET c == CigarAt(dscan.pattern, dscan.i)
           r == cigar_snprintf(dscan.pos, CigarBufSize - dscan.pos, c)
       IN dscan' = [dscan EXCEPT
             !.i = @ + 1,
             !.pos = @ + r.ret,
             !.hi = IF r.nul > @ THEN r.nul ELSE @,
             !.last = r.stored,
             !.cut = @ \/ Len(r.stored) < r.ret]
    /\ UNCHANGED <<scanVars, pscan, lscan>>

cigar_terminate ==
    /\ dscan # None /\ dscan.kind = "cigar" /\ dscan.pc = "loop"
    /\ ~CigarLoopGuard(dscan.i, dscan.n_cigar, dscan.pos, CigarBufSize)
    /\ dscan' = [dscan EXCEPT
          !.hi = IF dscan.pos > @ THEN dscan.pos ELSE @,
          !.pc = "done"]
    /\ UNCHANGED <<scanVars, pscan, lscan>>

NextCigar ==
    \/ cigar_append
    \/ cigar_terminate

SpecCigar == InitCigar /\ [][NextCigar]_vars

CigarModel == dscan # None /\ dscan.kind = "cigar"

C29_Inv ==
    CigarModel =>
        /\ dscan.hi < CigarBufSize
        /\ dscan.pos < CigarBufSize
        /\ ~dscan.cut
        \* the terminator ends the last pair stored; pairs are left out only
        \* when fewer than CigarMargin + 1 bytes are free
        /\ dscan.pc = "done" =>
              /\ dscan.hi = dscan.pos
              /\ dscan.i < dscan.n_cigar =>
                    dscan.pos + CigarMargin >= CigarBufSize

C29_Act ==
    (CigarModel /\ dscan' # dscan /\ dscan'.pc = "loop") =>
        /\ dscan'.last = CigarPair(CigarAt(dscan.pattern, dscan.i))
        /\ dscan'.pos = dscan.pos + Len(dscan'.last)
        /\ dscan'.i = dscan.i + 1

\* C29: cigar_to_string stores to indices below the buffer size only, the
\* terminator included; every pair it stores is stored whole, one after the
\* other in CIGAR order, and the terminator follows the last pair stored.
C29_CigarBufferBounds == []C29_Inv /\ [][C29_Act]_vars

\* a CIGAR that does not fit: the last pair stored has ten characters and
\* ends three bytes before the end of the buffer
C29_Witness ==
    /\ CigarModel /\ dscan.pc = "done"
    /\ dscan.i < dscan.n_cigar
    /\ Len(dscan.last) = 10
    /\ dscan.hi = CigarBufSize - 3

====
